---- MODULE Spec2Model ----
(***************************************************************************)
(* Task orchestration engine of TC-DNA: TaskManager, TaskRunner and the    *)
(* script thread of utils/task/task_manager.py, as a state machine.        *)
(*                                                                         *)
(* A "caller" is a thread that calls the TaskManager API (start_task,      *)
(* stop_task, load_tasks).  Every call is split at the points where it     *)
(* reads or writes state shared with other threads, so that the            *)
(* interleavings Python's threads allow are the behaviours of Spec.        *)
(* Spec        two threads call start_task and stop_task for one task id.  *)
(* SpecSeq     only the UI thread calls the TaskManager (start_task,       *)
(*             stop_task, load_tasks; one call at a time); the script      *)
(*             threads run beside it.                                      *)
(* SpecRunner  SpecSeq plus direct calls of TaskRunner.stop() on a runner. *)
(* SpecQuery   SpecSeq plus get_task_status calls of the UI thread.        *)
(* SpecCore    the UI thread starts and stops a task that stays enabled.   *)
(* SpecLive    SpecCore with weak fairness of the calls in progress.       *)
(* SpecObs     SpecCore after any registrations with add_task_callback.    *)
(* SpecSelf    SpecCore plus stop() called by the body on its own runner.  *)
(* SpecReload  load_tasks of the UI thread beside get_task of a thread.    *)
(*                                                                         *)
(* The input subsystem (utils/input) follows the task engine: the facade   *)
(* InputManager over KeyboardInput, MouseInput and WindowMessage, with the *)
(* specifications SpecWindow, SpecKeys, SpecMouse and SpecWait, the calls  *)
(* of the drivers with a handle (SpecGesture, SpecPrim, SpecRepeat), two   *)
(* tasks side by side (SpecPair) and the shared store GlobalManager        *)
(* (SpecStore).                                                            *)
(***************************************************************************)
EXTENDS Integers, Sequences, FiniteSets, TLC

\* ---------------------------------------------------------------- bounds
MaxRunners == 2      \* TaskRunner objects created in one run
MaxCallbacks == 2    \* entries of task_callbacks

Tasks == {1, 2}                 \* task ids that may appear in config/tasks.json
Callers == {"ui", "worker"}     \* threads calling the TaskManager API
Observers == {1, 2}             \* callbacks registered with add_task_callback
MainThread == "ui"
NoRunner == 0                   \* no key in task_runners

\* ------------------------------------------------------ enumerated types
\* TaskStatus (the runner's execution state)
STOPPED == "stopped"
RUNNING == "running"
ERROR == "error"

\* TaskState (the derived display state)
DISABLED == "disabled"
READY == "ready"

\* A registry entry: no TaskInfo for the id, or a TaskInfo with its enabled flag.
TaskInfo == {"absent", "enabled", "disabled"}

\* What config/tasks.json may hold when load_tasks reads it.
Configs == [Tasks -> TaskInfo]
EmptyCfg == [t \in Tasks |-> "absent"]

\* What the environment does to one TaskRunner.start():
\*   ok           the script loads and the thread starts
\*   unavailable  the script file does not exist (is_available, line 116)
\*   failed       no loader or no create_script (lines 194, 207)
\*   raised       exec_module or create_script raises (line 211)
\*   nothread     Thread.start() raises (line 129, caught at line 138)
StartEnv == {"ok", "unavailable", "failed", "raised", "nothread"}

\* Position of a runner's script thread (_run_script):
\*   none        no thread was started
\*   body        inside script_instance.start()
\*   fin_stopped body returned, status set, set_global('stopped') pending
\*   fin_error   body raised, status set, set_global('error') pending
\*   ended       _run_script has returned after the body returned
\*   failed      _run_script has returned after the body raised
\*   self_join   the body called stop() on its runner and waits in join
\*   self_setg   the body called stop() on its runner, set_global pending
ThreadPc == {"none", "body", "fin_stopped", "fin_error", "ended", "failed",
             "self_join", "self_setg"}

\* What the body's stop hook does when stop() calls it.
HookEnv == {"ok", "raised"}

VARIABLES
    tasks,           \* TaskManager.tasks: task id -> TaskInfo
    task_runners,    \* TaskManager.task_runners: task id -> runner (NoRunner if no key)
    task_callbacks,  \* TaskManager.task_callbacks: sequence of observers
    runners,         \* every TaskRunner object created so far (the heap)
    gstatus,         \* GlobalManager value of the key task.<id>.status
    received,        \* observer -> sequence of events its callback was called with
    events,          \* every call of a callback so far: <<observer, event type, task id>>
    pc,              \* caller -> position inside its current call
    op,              \* caller -> the call it makes / made last
    arg,             \* caller -> argument of that call
    ret,             \* caller -> outcome of its last completed call
    log,             \* caller -> warning / error record written by that call
    made,            \* caller -> the runner its last start_task created and dropped
    info,            \* caller -> local task_info of start_task
    runner,          \* caller -> local variable runner of start_task / stop_task
    cfg,             \* caller -> config_data read by load_tasks
    todo,            \* caller -> ids load_tasks has still to insert
    gwindow,         \* GlobalManager value of the key target_window (a handle, NoWindow if None)
    target_window,   \* InputManager._target_window
    sent,            \* messages the last input call delivered to windows, in order
    result,          \* what the last input call returned to the script
    req,             \* the last input call: its name, its arguments, its environment
    clock,           \* time.time(), in polling intervals of 0.01 s
    pressed,         \* GetAsyncKeyState of the key or button being waited for
    wait,            \* the wait_for_*_release call in progress
    data,            \* GlobalManager._data: key -> value ("absent" if no key)
    listeners,       \* GlobalManager._listeners: key -> sequence of callbacks
    history,         \* GlobalManager._event_history: keys of the events recorded
    notified         \* calls of listeners the last set made: <<callback, key, new, old>>

store == <<data, listeners, history, notified>>
inp == <<gwindow, target_window, sent, result, req, clock, pressed, wait, store>>

vars == <<tasks, task_runners, task_callbacks, runners, gstatus, received, events,
          pc, op, arg, ret, log, made, info, runner, cfg, todo, inp>>

mgr == <<tasks, task_runners, task_callbacks>>
call == <<pc, op, arg, ret, log, made, info, runner, cfg, todo>>

NoWindow == 0                   \* no window selected (None)
NoCall == [op |-> "none"]
NoWait == [pc |-> "idle"]

\* The input subsystem before any window is selected and any input call is made.
InputIdle(W) ==
    /\ gwindow \in W
    /\ target_window = gwindow
    /\ sent = <<>>
    /\ result = "none"
    /\ req = NoCall
    /\ clock = 0
    /\ pressed = FALSE
    /\ wait = NoWait
    /\ data = [k \in {"a", "b", "last_activity"} |-> "absent"]
    /\ listeners = [k \in {"a", "b"} |-> <<>>]
    /\ history = <<>>
    /\ notified = <<>>

\* ------------------------------------------------------------- helpers
Upd(f, x, v) == [f EXCEPT ![x] = v]

\* TaskRunner.__init__
NewRunner(t, ti) ==
    [task_id |-> t, enabled |-> (ti = "enabled"), status |-> STOPPED,
     script_instance |-> "none", load |-> "none", script_thread |-> "none",
     stop_event |-> FALSE, hook_calls |-> 0]

\* No runner object.
NoRec == NewRunner(NoRunner, "absent")

\* threading.Thread.is_alive()
IsAlive(r) ==
    runners[r].script_thread \in {"body", "fin_stopped", "fin_error",
                                  "self_join", "self_setg"}

\* Runner objects that exist.
RunnerIds == 1..Len(runners)

\* Mutant: the tasks share one status key.
SetGlobalShared(t, v) == gstatus' = [u \in Tasks |-> v]

\* set_global('task.<id>.status', value)
SetGlobal(t, v) == gstatus' = Upd(gstatus, t, v)

\* _notify_callbacks: every entry of task_callbacks is called, in list order;
\* an observer's log grows by one record per entry that is this observer.
RECURSIVE Deliver(_, _, _)
Deliver(cbs, logs, ev) ==
    IF cbs = <<>> THEN logs
    ELSE Deliver(Tail(cbs), Upd(logs, Head(cbs), Append(logs[Head(cbs)], ev)), ev)

\* Observers whose callback raises an exception on every event.
Throwing == {2}

\* Mutant: the exception of a callback ends the loop.
CalledUntilRaise(cbs) ==
    IF \E i \in 1..Len(cbs) : cbs[i] \in Throwing
    THEN SubSeq(cbs, 1, CHOOSE i \in 1..Len(cbs) :
                           /\ cbs[i] \in Throwing
                           /\ \A j \in 1..(i - 1) : cbs[j] \notin Throwing)
    ELSE cbs

\* lines 429-433: the callbacks that are called when the list is cbs.  The
\* try/except is inside the loop, so the loop reaches every entry.
Called(cbs) == cbs

\* Mutant: the list is walked from its end.
CallsReversed(cbs, ev) ==
    [i \in 1..Len(cbs) |-> <<cbs[Len(cbs) + 1 - i], ev[1], ev[2]>>]

\* line 429-431: the calls made for the event ev, in the order of the list.
Calls(cbs, ev) == [i \in 1..Len(cbs) |-> <<cbs[i], ev[1], ev[2]>>]

\* line 433: the record logged when a callback raised.
NotifyLog == IF \E i \in 1..Len(task_callbacks) : task_callbacks[i] \in Throwing
             THEN "callback_failed" ELSE "none"

NotifyCallbacks(etype, t) ==
    /\ received' = Deliver(Called(task_callbacks), received, <<etype, t>>)
    /\ events' = events \o Calls(Called(task_callbacks), <<etype, t>>)

\* TaskManager.get_task
GetTask(t) == tasks[t]

\* Mutant: the enabled flag of the definition is not looked at.
GetTaskStatusAnyDefinition(t) ==
    IF GetTask(t) = "absent" THEN DISABLED
    ELSE IF task_runners[t] # NoRunner /\ runners[task_runners[t]].status = RUNNING
         THEN RUNNING
    ELSE IF task_runners[t] # NoRunner /\ runners[task_runners[t]].status = ERROR
         THEN ERROR
    ELSE READY

\* TaskManager.get_task_status
GetTaskStatus(t) ==
    IF GetTask(t) # "enabled" THEN DISABLED
    ELSE IF task_runners[t] # NoRunner /\ runners[task_runners[t]].status = RUNNING
         THEN RUNNING
    ELSE IF task_runners[t] # NoRunner /\ runners[task_runners[t]].status = ERROR
         THEN ERROR
    ELSE READY

\* The call of caller c returns (or raises) with outcome r; its locals are gone.
Return(c, r, l, m) ==
    /\ pc' = Upd(pc, c, "idle")
    /\ ret' = Upd(ret, c, r)
    /\ log' = Upd(log, c, l)
    /\ made' = Upd(made, c, m)
    /\ info' = Upd(info, c, "absent")
    /\ runner' = Upd(runner, c, NoRunner)
    /\ cfg' = Upd(cfg, c, EmptyCfg)
    /\ todo' = Upd(todo, c, {})

Finish(c, r, l) == Return(c, r, l, NoRec)

\* The call of caller c moves on to position l; its locals are kept.
Goto(c, l) ==
    /\ pc' = Upd(pc, c, l)
    /\ UNCHANGED <<ret, log, made, info, runner, cfg, todo>>

\* Caller c enters the call o(a).
Enter(c, o, a) ==
    /\ pc[c] = "idle"
    /\ op' = Upd(op, c, o)
    /\ arg' = Upd(arg, c, a)

\* Caller c, inside a call, goes to position l with fresh outcome fields.
Begin(c, l) ==
    /\ pc' = Upd(pc, c, l)
    /\ ret' = Upd(ret, c, "none")
    /\ log' = Upd(log, c, "none")
    /\ made' = Upd(made, c, NoRec)

\* ---------------------------------------------------------------- Init
\* TaskManager.__init__ has run (load_tasks read some configuration, no
\* runner exists) and the UI has registered its observers.
TasksInit(D, CB) ==
    /\ tasks \in D
    /\ task_runners = [t \in Tasks |-> NoRunner]
    /\ task_callbacks \in CB
    /\ runners = <<>>
    /\ gstatus = [t \in Tasks |-> "unset"]
    /\ received = [o \in Observers |-> <<>>]
    /\ events = <<>>
    /\ pc = [c \in Callers |-> "idle"]
    /\ op = [c \in Callers |-> "none"]
    /\ arg = [c \in Callers |-> 1]
    /\ ret = [c \in Callers |-> "none"]
    /\ log = [c \in Callers |-> "none"]
    /\ made = [c \in Callers |-> NoRec]
    /\ info = [c \in Callers |-> "absent"]
    /\ runner = [c \in Callers |-> NoRunner]
    /\ cfg = [c \in Callers |-> EmptyCfg]
    /\ todo = [c \in Callers |-> {}]

InitWith(D, CB) == TasksInit(D, CB) /\ InputIdle({NoWindow})

\* ------------------------------------------------------ TaskRunner.start
\* Mutant: status = RUNNING is assigned before the script is loaded.
RunnerStartEager(rec, env) ==
    IF rec.status = RUNNING THEN rec
    ELSE IF ~rec.enabled \/ env = "unavailable" THEN [rec EXCEPT !.load = "unavailable"]
    ELSE IF env \in {"failed", "raised"} THEN [rec EXCEPT !.load = env, !.status = RUNNING]
    ELSE IF env = "nothread"
         THEN [rec EXCEPT !.load = "ok", !.script_instance = "loaded",
                          !.stop_event = FALSE, !.status = ERROR]
    ELSE [rec EXCEPT !.load = "ok", !.script_instance = "loaded",
                     !.stop_event = FALSE, !.status = RUNNING,
                     !.script_thread = "body"]

\* lines 111-150 on the runner record rec, under the environment's choice env:
\* the RUNNING check, is_available(), _load_script(), then the launch.
RunnerStart(rec, env) ==
    IF rec.status = RUNNING THEN rec
    ELSE IF ~rec.enabled \/ env = "unavailable" THEN [rec EXCEPT !.load = "unavailable"]
    ELSE IF env \in {"failed", "raised"} THEN [rec EXCEPT !.load = env]
    ELSE IF env = "nothread"
         THEN [rec EXCEPT !.load = "ok", !.script_instance = "loaded",
                          !.stop_event = FALSE, !.status = ERROR]
    ELSE [rec EXCEPT !.load = "ok", !.script_instance = "loaded",
                     !.stop_event = FALSE, !.status = RUNNING,
                     !.script_thread = "body"]

\* The record written to the log by a start() that returns False.
StartLog(rec) ==
    IF rec.load = "unavailable" THEN "unavailable"
    ELSE IF rec.load \in {"failed", "raised"} THEN "load_failed"
    ELSE "start_failed"

\* start() returned True: it returns True exactly on the path that started the thread.
Started(rec) == rec.script_thread = "body"

\* ------------------------------------------------- TaskManager.start_task
\* Calls that will still create a runner.
PendingCreates == Cardinality({d \in Callers : pc[d] = "st_check"})

\* lines 349-352: task_info = self.get_task(task_id)
StartTask(c, t) ==
    /\ Enter(c, "start", t)
    /\ Len(runners) + PendingCreates < MaxRunners
    /\ IF GetTask(t) = "absent"
       THEN Finish(c, "false", "not_found")
       ELSE /\ Begin(c, "st_check")
            /\ info' = Upd(info, c, GetTask(t))
            /\ UNCHANGED <<runner, cfg, todo>>
    /\ UNCHANGED <<mgr, runners, gstatus, received, events, inp>>

\* Mutant: the check of the active table is forgotten.
AlreadyRunningNever(t) == FALSE

\* lines 354-358: the check of the active table
AlreadyRunning(t) ==
    /\ task_runners[t] # NoRunner
    /\ runners[task_runners[t]].status = RUNNING

\* lines 354-362: the check, runner = TaskRunner(task_info), success = runner.start()
\* up to the start of the thread (nothing of the new runner is visible to
\* another thread before that).  A runner whose start() returned False is
\* referenced by this call alone and is dropped when the call returns.
StCheck(c) ==
    /\ pc[c] = "st_check"
    /\ IF AlreadyRunning(arg[c])
       THEN /\ Finish(c, "false", "already_running")
            /\ UNCHANGED runners
       ELSE \E env \in StartEnv :
            LET rec == RunnerStart(NewRunner(arg[c], info[c]), env) IN
            IF Started(rec)
            THEN /\ runners' = Append(runners, rec)
                 /\ pc' = Upd(pc, c, "rs_setg")
                 /\ runner' = Upd(runner, c, Len(runners) + 1)
                 /\ UNCHANGED <<ret, log, made, info, cfg, todo>>
            ELSE /\ Return(c, "false", StartLog(rec), rec)
                 /\ UNCHANGED runners
    /\ UNCHANGED <<mgr, gstatus, received, events, op, arg, inp>>

\* lines 132-136: set_global('task.<id>.status', 'running'); return True
RunnerSetGlobal(c) ==
    /\ pc[c] = "rs_setg"
    /\ SetGlobal(arg[c], RUNNING)
    /\ Goto(c, "st_reg")
    /\ UNCHANGED <<mgr, runners, received, events, op, arg, inp>>

\* lines 364-365: self.task_runners[task_id] = runner
StRegister(c) ==
    /\ pc[c] = "st_reg"
    /\ task_runners' = Upd(task_runners, arg[c], runner[c])
    /\ Goto(c, "st_notify")
    /\ UNCHANGED <<tasks, task_callbacks, runners, gstatus, received, events, op, arg, inp>>

\* Mutant: start_task returns True without publishing task_started.
StNotifySilent(c) ==
    /\ pc[c] = "st_notify"
    /\ Finish(c, "true", "none")
    /\ UNCHANGED <<mgr, runners, gstatus, received, events, op, arg, inp>>

\* lines 366-368: self._notify_callbacks('task_started', task_info); return success
StNotify(c) ==
    /\ pc[c] = "st_notify"
    /\ NotifyCallbacks("task_started", arg[c])
    /\ Finish(c, "true", NotifyLog)
    /\ UNCHANGED <<mgr, runners, gstatus, op, arg, inp>>

\* ------------------------------------------------------- TaskRunner.stop
\* lines 160-165: set the stop event and call the body's stop hook.
StopSignal(rec) ==
    [rec EXCEPT !.stop_event = TRUE,
                !.hook_calls = IF rec.script_instance = "loaded" THEN @ + 1 ELSE @]

\* line 167: the record logged by a stop() whose hook did h.
HookLog(rec, h) ==
    IF rec.script_instance = "loaded" /\ h = "raised" THEN "hook_failed" ELSE "none"

\* Mutant: the exception of the stop hook leaves stop().
StopOutcomeUncaught(h) == IF h = "raised" THEN "raised" ELSE "none"

\* lines 164-167: how stop() goes on after the hook: the exception of the
\* hook is caught and logged, stop() never raises because of it.
StopOutcome(h) == "none"

\* Mutant: stop() waits for the script thread whoever calls it.
JoinsAlways(r, who) == IsAlive(r)

\* lines 170-172: stop() called by thread who waits for the script thread of
\* runner r if that thread is alive and is not the calling thread (who is
\* the runner whose script thread is calling, NoRunner for another thread).
Joins(r, who) == IsAlive(r) /\ who # r

\* Mutant: join has no timeout.
RunnerJoinUntilEnd(c) ==
    /\ pc[c] = "rstop_join"
    /\ ~IsAlive(runner[c])
    /\ runners' = Upd(runners, runner[c], [runners[runner[c]] EXCEPT !.status = STOPPED])
    /\ Goto(c, "rstop_setg")
    /\ UNCHANGED <<mgr, gstatus, received, events, op, arg, inp>>

\* lines 170-176: script_thread.join(timeout=5.0) has returned, because the
\* thread has ended (or was not alive), or because the 5 s have passed;
\* line 178: self.status = TaskStatus.STOPPED
RunnerJoin(c) ==
    /\ pc[c] = "rstop_join"
    /\ \/ ~IsAlive(runner[c])
       \/ IsAlive(runner[c])
    /\ runners' = Upd(runners, runner[c], [runners[runner[c]] EXCEPT !.status = STOPPED])
    /\ Goto(c, "rstop_setg")
    /\ UNCHANGED <<mgr, gstatus, received, events, op, arg, inp>>

\* lines 179-181: set_global('task.<id>.status', 'stopped'); stop() returns
RunnerStopSetGlobal(c) ==
    /\ pc[c] = "rstop_setg"
    /\ SetGlobal(runners[runner[c]].task_id, STOPPED)
    /\ IF op[c] = "rstop" THEN Finish(c, "none", log[c]) ELSE Goto(c, "sp_del")
    /\ UNCHANGED <<mgr, runners, received, events, op, arg, inp>>

\* -------------------------------------------------- TaskManager.stop_task
\* line 377: if task_id in self.task_runners
StopTask(c, t) ==
    /\ Enter(c, "stop", t)
    /\ IF task_runners[t] = NoRunner
       THEN Finish(c, "none", "none")
       ELSE /\ Begin(c, "sp_get")
            /\ UNCHANGED <<info, runner, cfg, todo>>
    /\ UNCHANGED <<mgr, runners, gstatus, received, events, inp>>

\* line 378: runner = self.task_runners[task_id] (KeyError if the key is gone);
\* line 379: runner.stop(), lines 154-167
RunnerStop(c) ==
    /\ pc[c] = "sp_get"
    /\ LET r == task_runners[arg[c]] IN
       IF r = NoRunner
       THEN /\ Finish(c, "raised", "none")
            /\ UNCHANGED runners
       ELSE IF runners[r].status = STOPPED
       THEN /\ pc' = Upd(pc, c, "sp_del")
            /\ runner' = Upd(runner, c, r)
            /\ UNCHANGED <<runners, ret, log, made, info, cfg, todo>>
       ELSE \E h \in HookEnv :
            /\ runners' = Upd(runners, r, StopSignal(runners[r]))
            /\ IF StopOutcome(h) = "raised"
               THEN Finish(c, "raised", "none")
               ELSE /\ pc' = Upd(pc, c, "rstop_join")
                    /\ runner' = Upd(runner, c, r)
                    /\ log' = Upd(log, c, HookLog(runners[r], h))
                    /\ UNCHANGED <<ret, made, info, cfg, todo>>
    /\ UNCHANGED <<mgr, gstatus, received, events, op, arg, inp>>

\* line 380: del self.task_runners[task_id]  (KeyError if the key is gone)
SpDel(c) ==
    /\ pc[c] = "sp_del"
    /\ IF task_runners[arg[c]] = NoRunner
       THEN /\ Finish(c, "raised", "none")
            /\ UNCHANGED task_runners
       ELSE /\ task_runners' = Upd(task_runners, arg[c], NoRunner)
            /\ Goto(c, "sp_notify")
    /\ UNCHANGED <<tasks, task_callbacks, runners, gstatus, received, events, op, arg, inp>>

\* lines 381-383: task = self.get_task(task_id); if task: notify 'task_stopped'
SpNotify(c) ==
    /\ pc[c] = "sp_notify"
    /\ IF GetTask(arg[c]) # "absent"
       THEN NotifyCallbacks("task_stopped", arg[c])
       ELSE UNCHANGED <<received, events>>
    /\ Finish(c, "none", IF log[c] # "none" \/ GetTask(arg[c]) = "absent"
                          THEN log[c] ELSE NotifyLog)
    /\ UNCHANGED <<mgr, runners, gstatus, op, arg, inp>>

\* ------------------------------------- TaskRunner.stop called on a runner
\* lines 152-167, on the runner object r itself (not through stop_task)
DirectStop(c, r) ==
    /\ r \in RunnerIds
    /\ Enter(c, "rstop", r)
    /\ IF runners[r].status = STOPPED
       THEN /\ Finish(c, "none", "none")
            /\ UNCHANGED runners
       ELSE \E h \in HookEnv :
            /\ runners' = Upd(runners, r, StopSignal(runners[r]))
            /\ IF StopOutcome(h) = "raised"
               THEN Finish(c, "raised", "none")
               ELSE /\ pc' = Upd(pc, c, "rstop_join")
                    /\ ret' = Upd(ret, c, "none")
                    /\ log' = Upd(log, c, HookLog(runners[r], h))
                    /\ made' = Upd(made, c, NoRec)
                    /\ runner' = Upd(runner, c, r)
                    /\ UNCHANGED <<info, cfg, todo>>
    /\ UNCHANGED <<mgr, gstatus, received, events, inp>>

\* ------------------------------------------------- TaskManager.load_tasks
\* lines 257-267: the configuration file is missing or unreadable (return
\* False, nothing touched), or it is read (one of D) and self.tasks is cleared.
LoadTasks(c, D) ==
    /\ Enter(c, "load", arg[c])
    /\ \/ /\ Finish(c, "false", "load_config_failed")
          /\ UNCHANGED tasks
       \/ \E d \in D :
          /\ tasks' = EmptyCfg
          /\ IF d = EmptyCfg
             THEN Finish(c, "true", "none")
             ELSE /\ Begin(c, "load_insert")
                  /\ cfg' = Upd(cfg, c, d)
                  /\ todo' = Upd(todo, c, {t \in Tasks : d[t] # "absent"})
                  /\ UNCHANGED <<info, runner>>
    /\ UNCHANGED <<task_runners, task_callbacks, runners, gstatus, received, events, inp>>

\* lines 269-291: one turn of the loop, self.tasks[task_id] = task_info,
\* in the order of the file; after the last turn load_tasks returns True.
NextToInsert(c) == CHOOSE t \in todo[c] : \A u \in todo[c] : t <= u

LoadInsert(c) ==
    /\ pc[c] = "load_insert"
    /\ LET t == NextToInsert(c) IN
       /\ tasks' = Upd(tasks, t, cfg[c][t])
       /\ IF todo[c] = {t}
          THEN Finish(c, "true", "none")
          ELSE /\ todo' = Upd(todo, c, todo[c] \ {t})
               /\ UNCHANGED <<pc, ret, log, made, info, runner, cfg>>
    /\ UNCHANGED <<task_runners, task_callbacks, runners, gstatus, received, events, op, arg, inp>>

\* ------------------------------------------------ TaskRunner._run_script
\* lines 219-223: script_instance.start() returns; a runner still RUNNING
\* becomes STOPPED.
BodyReturn(r) ==
    /\ r \in RunnerIds
    /\ runners[r].script_thread = "body"
    /\ IF runners[r].status = RUNNING
       THEN runners' = Upd(runners, r, [runners[r] EXCEPT
                           !.status = STOPPED, !.script_thread = "fin_stopped"])
       ELSE runners' = Upd(runners, r, [runners[r] EXCEPT !.script_thread = "ended"])
    /\ UNCHANGED <<mgr, gstatus, received, events, call, inp>>

\* Mutant: the exception of the body is not caught; the thread dies with it.
BodyRaiseUncaught(r) ==
    /\ r \in RunnerIds
    /\ runners[r].script_thread = "body"
    /\ runners' = Upd(runners, r, [runners[r] EXCEPT !.script_thread = "failed"])
    /\ UNCHANGED <<mgr, gstatus, received, events, call, inp>>

\* lines 228-230: script_instance.start() raises; status = ERROR
BodyRaise(r) ==
    /\ r \in RunnerIds
    /\ runners[r].script_thread = "body"
    /\ runners' = Upd(runners, r, [runners[r] EXCEPT
                      !.status = ERROR, !.script_thread = "fin_error"])
    /\ UNCHANGED <<mgr, gstatus, received, events, call, inp>>

\* lines 226 and 231: set_global('task.<id>.status', ...), then the thread ends
RunSetGlobal(r) ==
    /\ r \in RunnerIds
    /\ runners[r].script_thread \in {"fin_stopped", "fin_error"}
    /\ IF runners[r].script_thread = "fin_stopped"
       THEN /\ SetGlobal(runners[r].task_id, STOPPED)
            /\ runners' = Upd(runners, r, [runners[r] EXCEPT !.script_thread = "ended"])
       ELSE /\ SetGlobal(runners[r].task_id, ERROR)
            /\ runners' = Upd(runners, r, [runners[r] EXCEPT !.script_thread = "failed"])
    /\ UNCHANGED <<mgr, received, events, call, inp>>

\* ------------------------------------------- TaskManager.add_task_callback
\* line 420: self.task_callbacks.append(callback); the list is not searched
\* for the callback first.
AddTaskCallback(c, o) ==
    /\ Enter(c, "add_callback", o)
    /\ Len(task_callbacks) < MaxCallbacks
    /\ task_callbacks' = Append(task_callbacks, o)
    /\ Finish(c, "none", "none")
    /\ UNCHANGED <<tasks, task_runners, runners, gstatus, received, events, inp>>

\* ------------------------------------------------------------- queries
\* lines 390-411: a call of get_task_status(t); its result is kept in ret.
GetTaskStatusCall(c, t) ==
    /\ Enter(c, "status", t)
    /\ Finish(c, GetTaskStatus(t), "none")
    /\ UNCHANGED <<mgr, runners, gstatus, received, events, inp>>

\* ------------------------- TaskRunner.stop called by the body of the runner
\* lines 152-178 on the script thread of runner r, from inside the body:
\* nothing if the runner is STOPPED; else the stop event, the hook, no join
\* of the own thread, status = STOPPED.
SelfStop(r) ==
    /\ r \in RunnerIds
    /\ runners[r].script_thread = "body"
    /\ IF runners[r].status = STOPPED
       THEN UNCHANGED runners
       ELSE \E h \in HookEnv :
            LET rec == StopSignal(runners[r]) IN
            IF StopOutcome(h) = "raised"
            THEN runners' = Upd(runners, r, rec)
            ELSE IF Joins(r, r)
            THEN runners' = Upd(runners, r, [rec EXCEPT !.script_thread = "self_join"])
            ELSE runners' = Upd(runners, r, [rec EXCEPT !.status = STOPPED,
                                                        !.script_thread = "self_setg"])
    /\ UNCHANGED <<mgr, gstatus, received, events, call, inp>>

\* lines 179-181: set_global('task.<id>.status', 'stopped'); stop() returns
\* into the body.
SelfStopSetGlobal(r) ==
    /\ r \in RunnerIds
    /\ runners[r].script_thread = "self_setg"
    /\ SetGlobal(runners[r].task_id, STOPPED)
    /\ runners' = Upd(runners, r, [runners[r] EXCEPT !.script_thread = "body"])
    /\ UNCHANGED <<mgr, received, events, call, inp>>

\* lines 297-307: a call of get_task(t); its result (the TaskInfo, or
\* "absent" for None) is kept in ret.
GetTaskCall(c, t) ==
    /\ Enter(c, "get_task", t)
    /\ Finish(c, GetTask(t), "none")
    /\ UNCHANGED <<mgr, runners, gstatus, received, events, inp>>

\* ---------------------------------------------------------------- Next
ThreadStep(r) == BodyReturn(r) \/ BodyRaise(r) \/ RunSetGlobal(r)

\* A call of start_task or stop_task for a task id of T, or one step of it.
TaskStep(c, T) ==
    \/ \E t \in T : StartTask(c, t)
    \/ StCheck(c)
    \/ RunnerSetGlobal(c)
    \/ StRegister(c)
    \/ StNotify(c)
    \/ \E t \in T : StopTask(c, t)
    \/ RunnerStop(c)
    \/ RunnerJoin(c)
    \/ RunnerStopSetGlobal(c)
    \/ SpDel(c)
    \/ SpNotify(c)

\* A call of load_tasks that reads one of the configurations D, or one step of it.
LoadStep(c, D) == LoadTasks(c, D) \/ LoadInsert(c)

\* The task id the specifications drive, and what the file may say about it.
Driven == {1}
DrivenConfigs == {d \in Configs : \A t \in Tasks \ Driven : d[t] = "absent"}
Registered == {<<1, 2>>}

\* Two threads call start_task and stop_task for an enabled task.
Init == InitWith({d \in DrivenConfigs : \A t \in Driven : d[t] = "enabled"}, Registered)

Next ==
    \/ \E c \in Callers : TaskStep(c, Driven)
    \/ \E r \in 1..MaxRunners : ThreadStep(r)

Spec == Init /\ [][Next]_vars

\* Only the UI thread calls the TaskManager; the script threads run beside it.
InitSeq == InitWith(DrivenConfigs, Registered)

NextSeq ==
    \/ TaskStep(MainThread, Driven)
    \/ LoadStep(MainThread, DrivenConfigs)
    \/ \E r \in 1..MaxRunners : ThreadStep(r)

SpecSeq == InitSeq /\ [][NextSeq]_vars

\* The UI thread also calls stop() on runner objects directly.
NextRunner ==
    \/ NextSeq
    \/ \E r \in 1..MaxRunners : DirectStop(MainThread, r)

SpecRunner == InitSeq /\ [][NextRunner]_vars

\* The UI thread starts and stops an enabled task whose definition is not
\* reloaded; the script threads run beside it.
NextCore ==
    \/ TaskStep(MainThread, Driven)
    \/ \E r \in 1..MaxRunners : ThreadStep(r)

SpecCore == Init /\ [][NextCore]_vars

\* A call that has begun goes on to its end (the calling thread is scheduled
\* and join has a timeout), and a script thread that has left the body
\* finishes _run_script.  Nothing makes a body return, and nothing makes
\* the user start another call.
CallStep(c) == pc[c] # "idle" /\ TaskStep(c, Driven)

Fairness ==
    /\ WF_vars(CallStep(MainThread))
    /\ \A r \in 1..MaxRunners : WF_vars(RunSetGlobal(r))

SpecLive == SpecCore /\ Fairness

\* The UI registers its observers while it is built, before it starts a
\* task; any callback may be registered, and more than once.
InitObs == InitWith({d \in DrivenConfigs : \A t \in Driven : d[t] = "enabled"}, {<<>>})

Register(c, o) ==
    /\ runners = <<>>
    /\ AddTaskCallback(c, o)

NextObs ==
    \/ NextCore
    \/ \E o \in Observers : Register(MainThread, o)

SpecObs == InitObs /\ [][NextObs]_vars

\* The body of a running task may call stop() on its own runner; that call
\* goes on to its end.
NextSelf ==
    \/ NextCore
    \/ \E r \in 1..MaxRunners : SelfStop(r)
    \/ \E r \in 1..MaxRunners : SelfStopSetGlobal(r)

SpecSelf ==
    Init /\ [][NextSelf]_vars /\ \A r \in 1..MaxRunners : WF_vars(SelfStopSetGlobal(r))

\* The UI thread reloads the registry and looks tasks up, while another
\* thread looks tasks up; every version of config/tasks.json defines every
\* task.
AllDefined == {d \in Configs : \A t \in Tasks : d[t] # "absent"}

InitReload == InitWith(AllDefined, Registered)

NextReload ==
    \/ LoadStep(MainThread, AllDefined)
    \/ \E c \in Callers : \E t \in Tasks : GetTaskCall(c, t)

SpecReload == InitReload /\ [][NextReload]_vars

\* The UI thread also asks for the display state of a task.
NextQuery ==
    \/ NextSeq
    \/ \E t \in Driven : GetTaskStatusCall(MainThread, t)

SpecQuery == InitSeq /\ [][NextQuery]_vars

\* ======================================================================
\* Input subsystem: InputManager over KeyboardInput, MouseInput and
\* WindowMessage (utils/input).  An input call is one step: it delivers
\* its messages to the window and returns.
\* SpecWindow  the UI selects windows while a script presses keys.
\* SpecKeys    a script sends chords, key sequences and held keys.
\* SpecMouse   a script presses and releases buttons and drags.
\* SpecWait    a script waits for a key or a button to be released.
\* ======================================================================
MaxMods == 2        \* modifiers of one chord
MaxSteps == 2       \* steps of one key sequence
MaxActions == 1     \* actions of one action sequence
MaxFail == 3        \* the delivery that fails is one of the first MaxFail

Windows == {1, 2}                         \* handles of the windows that exist
Modifiers == {"ctrl", "shift"}
MainKeys == {"C", "#", "bogus"}
Durations == {-1, 0, 1}                   \* seconds
WindowResults == {0, 1}                   \* what the window procedure returns
\* The n-th SendMessage of a call fails (the window is gone); 0: none fails.
Envs == [fail_at : 0 .. MaxFail, wres : WindowResults]

\* the task engine and the store play no part in the input calls
task == <<mgr, runners, gstatus, received, events, call, store>>

RECURSIVE reversed(_)
reversed(s) == IF s = <<>> THEN <<>> ELSE Append(reversed(Tail(s)), Head(s))

ListsUpTo(S, n) == UNION {[1 .. k -> S] : k \in 0 .. n}

\* ------------------------------------------------- Python values and raise
\* A call in progress: the messages delivered so far, whether an exception
\* is propagating, and the value returned last.
Start == [msgs |-> <<>>, raised |-> FALSE, val |-> "None"]
Raise(st) == [st EXCEPT !.raised = TRUE]
Ret(st, v) == [st EXCEPT !.val = v]
Caught(st) == [st EXCEPT !.raised = FALSE]
PyBool(b) == IF b THEN "True" ELSE "False"
\* `if not v`
Truthy(v) == v \notin {"False", "0", "None"}

\* ------------------------------------------------------------ GlobalManager
ListenerParams == 2     \* _on_target_window_change(self, key, value)
NotifyArgs == 3         \* callback(key, new_value, old_value)

\* InputManager._on_target_window_change called with nargs arguments: a call
\* with another number of arguments raises TypeError before the body runs,
\* and _notify_listeners logs the exception.
on_target_window_change(value, nargs) ==
    IF nargs = ListenerParams THEN value ELSE target_window

\* set_global('target_window', v, notify=True)
SetGlobalWindow(v) ==
    /\ wait.pc = "idle"
    /\ gwindow' = v
    /\ target_window' = IF gwindow # v
                        THEN on_target_window_change(v, NotifyArgs)
                        ELSE target_window
    /\ UNCHANGED <<sent, result, req, clock, pressed, wait, task>>

\* ------------------------------------------------------------ WindowMessage
VIRTUAL_KEYS == [k \in {"c", "shift", "ctrl"} |->
                    CASE k = "c" -> 67 [] k = "shift" -> 16 [] k = "ctrl" -> 17]
lower(key) ==
    IF key = "C" THEN "c" ELSE IF key = "ctrl+C" THEN "ctrl+c" ELSE key
\* ord(key.upper()) of a key of one character
ord == [k \in {"#"} |-> 35]
KnownKey(key) == lower(key) \in DOMAIN VIRTUAL_KEYS \/ lower(key) \in DOMAIN ord
get_virtual_key(key) ==
    IF lower(key) \in DOMAIN VIRTUAL_KEYS THEN VIRTUAL_KEYS[lower(key)]
    ELSE ord[lower(key)]
\* Mutant: the message is sent a second time.
SendMessageTwice(st, env, hwnd, msg, wparam, lparam) ==
    IF hwnd \notin Windows \/ Len(st.msgs) + 1 = env.fail_at THEN Raise(st)
    ELSE [msgs |-> st.msgs \o << [hwnd |-> hwnd, msg |-> msg,
                                  wparam |-> wparam, lparam |-> lparam],
                                 [hwnd |-> hwnd, msg |-> msg,
                                  wparam |-> wparam, lparam |-> lparam] >>,
          raised |-> FALSE,
          val |-> ToString(env.wres)]

\* win32gui.SendMessage behind is_valid_window; raises when the window is
\* not valid or the delivery fails, else returns the window's result.
send_message(st, env, hwnd, msg, wparam, lparam) ==
    IF hwnd \notin Windows \/ Len(st.msgs) + 1 = env.fail_at THEN Raise(st)
    ELSE [msgs |-> Append(st.msgs, [hwnd |-> hwnd, msg |-> msg,
                                    wparam |-> wparam, lparam |-> lparam]),
          raised |-> FALSE,
          val |-> ToString(env.wres)]

\* get_virtual_key(key) and send_message(hwnd, msg, key_code, 0x00000001)
KeyMessage(st, env, hwnd, msg, key) ==
    IF ~KnownKey(key) THEN Raise(st)
    ELSE send_message(st, env, hwnd, msg, get_virtual_key(key), 1)

send_key_down(st, env, hwnd, key) ==
    IF ~KnownKey(key) THEN Raise(st)
    ELSE send_message(st, env, hwnd, "WM_KEYDOWN", get_virtual_key(key), 0)

send_key_up(st, env, hwnd, key) ==
    IF ~KnownKey(key) THEN Raise(st)
    ELSE send_message(st, env, hwnd, "WM_KEYUP", get_virtual_key(key), 1)

\* return result is not None or result == 0
key_down_press(st, env, hwnd, key) ==
    LET s == KeyMessage(st, env, hwnd, "WM_KEYDOWN", key)
    IN  IF s.raised THEN s ELSE Ret(s, PyBool(s.val # "None" \/ s.val = "0"))

key_down_release(st, env, hwnd, key) ==
    LET s == KeyMessage(st, env, hwnd, "WM_KEYUP", key)
    IN  IF s.raised THEN s ELSE Ret(s, PyBool(s.val # "None" \/ s.val = "0"))

\* time.sleep(duration) raises ValueError for a negative duration
sleep(st, duration) == IF duration < 0 THEN Raise(st) ELSE st

key_press_and_hold(st, env, hwnd, key, duration) ==
    LET s1 == key_down_press(st, env, hwnd, key)
    IN  IF s1.raised THEN s1
        ELSE IF ~Truthy(s1.val) THEN Ret(s1, "False")
        ELSE LET s2 == sleep(s1, duration)
             IN  IF s2.raised THEN s2 ELSE key_down_release(s2, env, hwnd, key)

\* Mutant: the exception of a step is swallowed and the next step is sent.
RECURSIVE SendKeySequenceSkipping(_, _, _, _)
SendKeySequenceSkipping(st, env, hwnd, key_sequence) ==
    IF key_sequence = <<>> THEN Ret(st, "True")
    ELSE LET step == Head(key_sequence)
             s == IF step[2] THEN KeyMessage(st, env, hwnd, "WM_KEYDOWN", step[1])
                  ELSE KeyMessage(st, env, hwnd, "WM_KEYUP", step[1])
         IN  SendKeySequenceSkipping(Caught(s), env, hwnd, Tail(key_sequence))

RECURSIVE send_key_sequence(_, _, _, _)
send_key_sequence(st, env, hwnd, key_sequence) ==
    IF key_sequence = <<>> THEN Ret(st, "True")
    ELSE LET step == Head(key_sequence)
             s == IF step[2] THEN KeyMessage(st, env, hwnd, "WM_KEYDOWN", step[1])
                  ELSE KeyMessage(st, env, hwnd, "WM_KEYUP", step[1])
         IN  IF s.raised THEN s
             ELSE send_key_sequence(s, env, hwnd, Tail(key_sequence))

\* ------------------------------------------------------------ KeyboardInput
RECURSIVE press_modifiers_precisely(_, _, _, _)
press_modifiers_precisely(st, env, hwnd, modifiers) ==
    IF modifiers = <<>> THEN Ret(st, "True")
    ELSE LET s == key_down_press(st, env, hwnd, Head(modifiers))
         IN  IF s.raised THEN s
             ELSE IF ~Truthy(s.val) THEN Ret(s, "False")
             ELSE press_modifiers_precisely(s, env, hwnd, Tail(modifiers))

\* the loop of release_modifiers_precisely over the keys in the order given
RECURSIVE ReleaseEach(_, _, _, _)
ReleaseEach(st, env, hwnd, keys) ==
    IF keys = <<>> THEN Ret(st, "True")
    ELSE LET s == key_down_release(st, env, hwnd, Head(keys))
         IN  IF s.raised THEN s
             ELSE IF ~Truthy(s.val) THEN Ret(s, "False")
             ELSE ReleaseEach(s, env, hwnd, Tail(keys))

\* Mutant: the modifiers are released in the order they were pressed.
ReleaseInListedOrder(st, env, hwnd, modifiers) ==
    ReleaseEach(st, env, hwnd, modifiers)

release_modifiers_precisely(st, env, hwnd, modifiers) ==
    ReleaseEach(st, env, hwnd, reversed(modifiers))

\* release_modifiers_precisely(...); return False
ReleaseAndFail(st, env, hwnd, modifiers) ==
    LET s == release_modifiers_precisely(st, env, hwnd, modifiers)
    IN  IF s.raised THEN s ELSE Ret(s, "False")

send_chord_key(st, env, hwnd, modifiers, main_key) ==
    LET s1 == press_modifiers_precisely(st, env, hwnd, modifiers)
    IN  IF s1.raised THEN s1
        ELSE IF ~Truthy(s1.val) THEN Ret(s1, "False")
        ELSE LET s2 == key_down_press(s1, env, hwnd, main_key)
             IN  IF s2.raised THEN s2
                 ELSE IF ~Truthy(s2.val) THEN ReleaseAndFail(s2, env, hwnd, modifiers)
                 ELSE LET s3 == key_down_release(s2, env, hwnd, main_key)
                      IN  IF s3.raised THEN s3
                          ELSE IF ~Truthy(s3.val)
                               THEN ReleaseAndFail(s3, env, hwnd, modifiers)
                          ELSE release_modifiers_precisely(s3, env, hwnd, modifiers)

\* ------------------------------------------------------------ KeyboardInput
\* key.split('+') of the key names used here
split(key) ==
    CASE key = "ctrl+C" -> <<"ctrl", "C">>
      [] key = "shift+ctrl+#" -> <<"shift", "ctrl", "#">>
      [] OTHER -> <<key>>

\* the modifiers named by the parts before the last, the others dropped
RECURSIVE ModifiersOf(_)
ModifiersOf(parts) ==
    IF parts = <<>> THEN <<>>
    ELSE LET part_lower == lower(Head(parts))
             rest == ModifiersOf(Tail(parts))
         IN  IF part_lower \in {"ctrl", "control"} THEN <<"ctrl">> \o rest
             ELSE IF part_lower = "shift" THEN <<"shift">> \o rest
             ELSE IF part_lower = "alt" THEN <<"alt">> \o rest
             ELSE IF part_lower \in {"win", "windows"} THEN <<"win">> \o rest
             ELSE rest

\* The call goes on with Op from the run st, unless an exception propagates.
Then(st, Op(_)) ==
    CHOOSE r \in {IF s.raised THEN s ELSE Op(s) : s \in {st}} : TRUE

\* for modifier in modifiers: send_key_down(hwnd, modifier); time.sleep(0.01)
RECURSIVE DownEach(_, _, _, _)
DownEach(st, env, hwnd, modifiers) ==
    IF modifiers = <<>> THEN st
    ELSE Then(send_key_down(st, env, hwnd, Head(modifiers)),
              LAMBDA s : DownEach(s, env, hwnd, Tail(modifiers)))

RECURSIVE UpEach(_, _, _, _)
UpEach(st, env, hwnd, modifiers) ==
    IF modifiers = <<>> THEN st
    ELSE Then(send_key_up(st, env, hwnd, Head(modifiers)),
              LAMBDA s : UpEach(s, env, hwnd, Tail(modifiers)))

RECURSIVE send_key_combination(_, _, _, _, _)

\* for i in range(repeat): a combination returns from the first iteration
RECURSIVE KeyLoop(_, _, _, _, _, _, _)
KeyLoop(st, env, hwnd, key, i, repeat, delay) ==
    IF i >= repeat THEN Ret(st, "True")
    ELSE IF lower(key) \in {"ctrl+c", "ctrl+v", "ctrl+x", "ctrl+z", "ctrl+a",
                            "ctrl+s", "ctrl+o", "ctrl+n"}
    THEN send_key_combination(st, env, hwnd, key, delay)
    ELSE IF Len(split(key)) > 1
    THEN send_key_combination(st, env, hwnd, key, delay)
    ELSE Then(Then(Then(Then(send_key_down(st, env, hwnd, key),
                             LAMBDA s : sleep(s, delay)),
                        LAMBDA s : send_key_up(s, env, hwnd, key)),
                   LAMBDA s : IF i < repeat - 1 THEN sleep(s, delay) ELSE s),
              LAMBDA s : KeyLoop(s, env, hwnd, key, i + 1, repeat, delay))

send_key(st, env, hwnd, key, repeat, delay) ==
    KeyLoop(st, env, hwnd, key, 0, repeat, delay)

send_key_combination(st, env, hwnd, key, press_duration) ==
    LET parts == split(key)
        modifiers == ModifiersOf(SubSeq(parts, 1, Len(parts) - 1))
        main_key == parts[Len(parts)]
    IN  IF Len(parts) > 1
        THEN Then(Then(Then(Then(Then(DownEach(st, env, hwnd, modifiers),
                                      LAMBDA s : send_key_down(s, env, hwnd, main_key)),
                                 LAMBDA s : sleep(s, press_duration)),
                            LAMBDA s : send_key_up(s, env, hwnd, main_key)),
                       LAMBDA s : UpEach(s, env, hwnd, reversed(modifiers))),
                  LAMBDA s : Ret(s, "True"))
        ELSE send_key(st, env, hwnd, key, 1, press_duration)

\* ------------------------------------------------------------- InputManager
get_target_window_handle == target_window

\* `if not hwnd: raise ValueError(...)`, and the call of the driver.
\* except Exception: log_error(...); return False
FacadeResult(s) == IF s.raised THEN "False" ELSE s.val

InputCall(r, s) ==
    /\ req' = r
    /\ sent' = s.msgs
    /\ result' = FacadeResult(s)
    /\ UNCHANGED <<gwindow, target_window, clock, pressed, wait, task>>

KeyDownPress(key, env) ==
    /\ wait.pc = "idle"
    /\ LET hwnd == get_target_window_handle
       IN  InputCall([op |-> "key_down_press", key |-> key, env |-> env],
                     IF hwnd = NoWindow THEN Raise(Start)
                     ELSE key_down_press(Start, env, hwnd, key))

SendChordKey(modifiers, main_key, env) ==
    /\ wait.pc = "idle"
    /\ LET hwnd == get_target_window_handle
       IN  InputCall([op |-> "send_chord_key", modifiers |-> modifiers,
                      key |-> main_key, env |-> env],
                     IF hwnd = NoWindow THEN Raise(Start)
                     ELSE send_chord_key(Start, env, hwnd, modifiers, main_key))

SendKeySequence(key_sequence, env) ==
    /\ wait.pc = "idle"
    /\ LET hwnd == get_target_window_handle
       IN  InputCall([op |-> "send_key_sequence", key_sequence |-> key_sequence,
                      env |-> env],
                     IF hwnd = NoWindow THEN Raise(Start)
                     ELSE send_key_sequence(Start, env, hwnd, key_sequence))

KeyPressAndHold(key, duration, env) ==
    /\ wait.pc = "idle"
    /\ LET hwnd == get_target_window_handle
       IN  InputCall([op |-> "key_press_and_hold", key |-> key,
                      duration |-> duration, env |-> env],
                     IF hwnd = NoWindow THEN Raise(Start)
                     ELSE key_press_and_hold(Start, env, hwnd, key, duration))

\* press_key(key) of the facade: its own try/except returns False
press_key(st, env, key) ==
    LET hwnd == get_target_window_handle
        s == IF hwnd = NoWindow THEN Raise(st) ELSE send_key(st, env, hwnd, key, 1, 0)
    IN  Ret(Caught(s), FacadeResult(s))

\* the loop of execute_action_sequence: the result of press_key is dropped
RECURSIVE RunActions(_, _, _)
RunActions(st, env, actions) ==
    IF actions = <<>> THEN Ret(st, "True")
    ELSE LET a == Head(actions)
             s == IF a.type = "key" THEN press_key(st, env, a.key) ELSE st
         IN  RunActions(s, env, Tail(actions))

ActionSet == {[type |-> "key", key |-> "C"], [type |-> "key", key |-> "bogus"],
              [type |-> "wait"]}

ExecuteActionSequence(actions, env) ==
    /\ wait.pc = "idle"
    /\ InputCall([op |-> "execute_action_sequence", actions |-> actions, env |-> env],
                 RunActions(Start, env, actions))

\* set_custom_window(hwnd) writes the window the facade holds back to the key
SetCustomWindow(hwnd) ==
    /\ wait.pc = "idle"
    /\ req' = [op |-> "set_custom_window", hwnd |-> hwnd]
    /\ sent' = <<>>
    /\ IF hwnd \notin Windows
       THEN /\ result' = "False"
            /\ UNCHANGED <<gwindow, target_window>>
       ELSE /\ result' = "True"
            /\ gwindow' = target_window
            /\ target_window' = IF gwindow # target_window
                                THEN on_target_window_change(target_window, NotifyArgs)
                                ELSE target_window
    /\ UNCHANGED <<clock, pressed, wait, task>>

\* ------------------------------------------------------------------- specs
\* The facade is constructed when the module is imported; the UI may have
\* selected a window before that, and selects windows afterwards.
InitInput == TasksInit({EmptyCfg}, {<<>>})
             /\ InputIdle(Windows \cup {NoWindow})

NextWindow ==
    \/ \E v \in Windows \cup {NoWindow} : SetGlobalWindow(v)
    \/ \E hwnd \in Windows \cup {NoWindow} : SetCustomWindow(hwnd)
    \/ \E key \in MainKeys, env \in Envs : KeyDownPress(key, env)
    \/ \E actions \in ListsUpTo(ActionSet, MaxActions), env \in Envs :
          ExecuteActionSequence(actions, env)

SpecWindow == InitInput /\ [][NextWindow]_vars

NextKeys ==
    \/ \E modifiers \in ListsUpTo(Modifiers, MaxMods), key \in MainKeys, env \in Envs :
          SendChordKey(modifiers, key, env)
    \/ \E key_sequence \in ListsUpTo({"C", "bogus"} \X BOOLEAN, MaxSteps), env \in Envs :
          SendKeySequence(key_sequence, env)
    \/ \E key \in MainKeys, duration \in Durations, env \in Envs :
          KeyPressAndHold(key, duration, env)

SpecKeys == InitInput /\ [][NextKeys]_vars

\* --------------------------------------------------------------- mouse
MaxButtons == 2     \* buttons of one multi-button call
MaxCoord == 25      \* largest client coordinate of a drag

ButtonLists == {"left", "right", "bogus"}
DragButtons == {"left", "right", "middle"}
Xs == {0, MaxCoord}
Ys == {0, MaxCoord}

\* the message and the wparam of a button going down / up
ButtonDown == [left |-> <<"WM_LBUTTONDOWN", 2>>, right |-> <<"WM_RBUTTONDOWN", 8>>,
               middle |-> <<"WM_MBUTTONDOWN", 32>>]
ButtonUp == [left |-> <<"WM_LBUTTONUP", 4>>, right |-> <<"WM_RBUTTONUP", 16>>,
             middle |-> <<"WM_MBUTTONUP", 64>>]

\* (y << 16) | (x & 0xFFFF)
build_lparam_for_mouse(x, y) == y * 65536 + (x % 65536)

send_mouse_move(st, env, hwnd, x, y) ==
    send_message(st, env, hwnd, "WM_MOUSEMOVE", 0, build_lparam_for_mouse(x, y))

\* returns what SendMessage returned
mouse_down_press(st, env, hwnd, x, y, button) ==
    IF button \notin DOMAIN ButtonDown THEN Raise(st)
    ELSE send_message(st, env, hwnd, ButtonDown[button][1], ButtonDown[button][2],
                      build_lparam_for_mouse(x, y))

mouse_down_release(st, env, hwnd, x, y, button) ==
    IF button \notin DOMAIN ButtonUp THEN Raise(st)
    ELSE send_message(st, env, hwnd, ButtonUp[button][1], ButtonUp[button][2],
                      build_lparam_for_mouse(x, y))

\* buttons.index(button), counted from 1
index(buttons, button) ==
    CHOOSE i \in DOMAIN buttons :
        buttons[i] = button /\ \A j \in 1 .. i - 1 : buttons[j] # button

\* for prev_button in ...: self.mouse_down_release(hwnd, x, y, prev_button)
RECURSIVE ReleasePrevious(_, _, _, _, _, _)
ReleasePrevious(st, env, hwnd, x, y, buttons) ==
    IF buttons = <<>> THEN st
    ELSE LET s == mouse_down_release(st, env, hwnd, x, y, Head(buttons))
         IN  IF s.raised THEN s
             ELSE ReleasePrevious(s, env, hwnd, x, y, Tail(buttons))

RECURSIVE PressFrom(_, _, _, _, _, _, _)
PressFrom(st, env, hwnd, x, y, buttons, i) ==
    IF i > Len(buttons) THEN Ret(st, "True")
    ELSE LET s == mouse_down_press(st, env, hwnd, x, y, buttons[i])
         IN  IF s.raised THEN s
             ELSE IF ~Truthy(s.val)
                  THEN LET r == ReleasePrevious(s, env, hwnd, x, y,
                                    SubSeq(buttons, 1, index(buttons, buttons[i]) - 1))
                       IN  IF r.raised THEN r ELSE Ret(r, "False")
             ELSE PressFrom(s, env, hwnd, x, y, buttons, i + 1)

send_multi_button_press(st, env, hwnd, x, y, buttons) ==
    PressFrom(st, env, hwnd, x, y, buttons, 1)

RECURSIVE ReleaseButtons(_, _, _, _, _, _)
ReleaseButtons(st, env, hwnd, x, y, buttons) ==
    IF buttons = <<>> THEN Ret(st, "True")
    ELSE LET s == mouse_down_release(st, env, hwnd, x, y, Head(buttons))
         IN  IF s.raised THEN s
             ELSE IF ~Truthy(s.val) THEN Ret(s, "False")
             ELSE ReleaseButtons(s, env, hwnd, x, y, Tail(buttons))

release_multi_button(st, env, hwnd, x, y, buttons) ==
    ReleaseButtons(st, env, hwnd, x, y, reversed(buttons))

Abs(n) == IF n < 0 THEN 0 - n ELSE n

\* steps = max(1, int(abs(end_x - start_x) / 10))
DragSteps(start_x, end_x) ==
    IF Abs(end_x - start_x) \div 10 > 1 THEN Abs(end_x - start_x) \div 10 ELSE 1

\* Mutant: the step width is rounded before it is multiplied.
CurrentByIncrement(start, end, i, steps) == start + ((end - start) \div steps) * i

\* current_x = start_x + (end_x - start_x) * i // steps
Current(start, end, i, steps) == start + ((end - start) * i) \div steps

RECURSIVE DragMoves(_, _, _, _, _, _, _, _, _)
DragMoves(st, env, hwnd, start_x, start_y, end_x, end_y, i, steps) ==
    IF i > steps THEN st
    ELSE LET s == send_mouse_move(st, env, hwnd, Current(start_x, end_x, i, steps),
                                  Current(start_y, end_y, i, steps))
         IN  IF s.raised THEN s
             ELSE DragMoves(s, env, hwnd, start_x, start_y, end_x, end_y, i + 1, steps)

send_drag(st, env, hwnd, start_x, start_y, end_x, end_y, button) ==
    LET s1 == send_mouse_move(st, env, hwnd, start_x, start_y)
    IN  IF s1.raised THEN s1
        ELSE IF button \notin {"left", "right"} THEN Raise(s1)
        ELSE LET s2 == send_message(s1, env, hwnd, ButtonDown[button][1],
                                    ButtonDown[button][2],
                                    build_lparam_for_mouse(start_x, start_y))
                 s3 == DragMoves(s2, env, hwnd, start_x, start_y, end_x, end_y, 0,
                                 DragSteps(start_x, end_x))
                 s4 == send_message(s3, env, hwnd, ButtonUp[button][1],
                                    ButtonUp[button][2],
                                    build_lparam_for_mouse(end_x, end_y))
             IN  IF s2.raised THEN s2
                 ELSE IF s3.raised THEN s3
                 ELSE IF s4.raised THEN s4
                 ELSE Ret(s4, "True")

SendMultiButtonPress(x, y, buttons, env) ==
    /\ wait.pc = "idle"
    /\ LET hwnd == get_target_window_handle
       IN  InputCall([op |-> "send_multi_button_press", x |-> x, y |-> y,
                      buttons |-> buttons, env |-> env],
                     IF hwnd = NoWindow THEN Raise(Start)
                     ELSE send_multi_button_press(Start, env, hwnd, x, y, buttons))

ReleaseMultiButton(x, y, buttons, env) ==
    /\ wait.pc = "idle"
    /\ LET hwnd == get_target_window_handle
       IN  InputCall([op |-> "release_multi_button", x |-> x, y |-> y,
                      buttons |-> buttons, env |-> env],
                     IF hwnd = NoWindow THEN Raise(Start)
                     ELSE release_multi_button(Start, env, hwnd, x, y, buttons))

DragAndDrop(start_x, start_y, end_x, end_y, button, env) ==
    /\ wait.pc = "idle"
    /\ LET hwnd == get_target_window_handle
       IN  InputCall([op |-> "drag_and_drop", start_x |-> start_x, start_y |-> start_y,
                      end_x |-> end_x, end_y |-> end_y, button |-> button, env |-> env],
                     IF hwnd = NoWindow THEN Raise(Start)
                     ELSE send_drag(Start, env, hwnd, start_x, start_y, end_x, end_y,
                                    button))

NextMouse ==
    \/ \E buttons \in ListsUpTo(ButtonLists, MaxButtons), env \in Envs :
          SendMultiButtonPress(MaxCoord, 0, buttons, env)
    \/ \E buttons \in ListsUpTo(ButtonLists, MaxButtons), env \in Envs :
          ReleaseMultiButton(MaxCoord, 0, buttons, env)
    \/ \E start_x \in Xs, start_y \in Ys, end_x \in Xs, end_y \in Ys,
          button \in DragButtons, env \in Envs :
          DragAndDrop(start_x, start_y, end_x, end_y, button, env)

SpecMouse == InitInput /\ [][NextMouse]_vars

\* ------------------------------------- wait_for_key_release / mouse_release
MaxTimeout == 2     \* largest timeout, in polling intervals
MaxSleep == 2       \* longest time one time.sleep(0.01) takes, in intervals
MaxClock == 6       \* no wait begins that could pass this time

Timeouts == -1 .. MaxTimeout
WaitNames == [key |-> {"C", "bogus"}, mouse |-> {"left", "bogus"}]

\* Mutant: the loop does not look at the time.
InTimeAlways(start_time, timeout) == TRUE

\* while time.time() - start_time < timeout
InTime(start_time, timeout) == clock - start_time < timeout

\* get_async_key_state(virtual_key) / get_mouse_button_state(button)
StateOf(fn, name) ==
    IF fn = "mouse" /\ name \notin {"left", "right", "middle"} THEN FALSE ELSE pressed

\* start_time = time.time(); a key name is resolved before the loop
WaitBegin(fn, name, timeout) ==
    /\ wait.pc \in {"idle", "done"}
    /\ clock + MaxTimeout + MaxSleep <= MaxClock
    /\ wait' = [pc |-> IF fn = "key" /\ ~KnownKey(name) THEN "done" ELSE "test",
                fn |-> fn, name |-> name, start_time |-> clock, timeout |-> timeout,
                ret |-> IF fn = "key" /\ ~KnownKey(name) THEN "raised" ELSE "none",
                observed |-> "none"]
    /\ UNCHANGED <<gwindow, target_window, sent, result, req, clock, pressed, task>>

\* the test of the loop and the poll of one iteration
WaitTest ==
    /\ wait.pc = "test"
    /\ IF InTime(wait.start_time, wait.timeout)
       THEN IF ~StateOf(wait.fn, wait.name)
            THEN wait' = [wait EXCEPT !.pc = "done", !.ret = "True",
                                      !.observed = "released"]
            ELSE wait' = [wait EXCEPT !.pc = "sleep", !.observed = "pressed"]
       ELSE wait' = [wait EXCEPT !.pc = "done", !.ret = "False"]
    /\ UNCHANGED <<gwindow, target_window, sent, result, req, clock, pressed, task>>

\* time.sleep(0.01)
WaitSleep ==
    /\ wait.pc = "sleep"
    /\ clock < MaxClock
    /\ \E d \in 1 .. MaxSleep : clock' = clock + d
    /\ wait' = [wait EXCEPT !.pc = "test"]
    /\ UNCHANGED <<gwindow, target_window, sent, result, req, pressed, task>>

\* the user presses or releases the key or button
KeyChange ==
    /\ pressed' = ~pressed
    /\ UNCHANGED <<gwindow, target_window, sent, result, req, clock, wait, task>>

NextWait ==
    \/ \E fn \in {"key", "mouse"}, timeout \in Timeouts :
          \E name \in WaitNames[fn] : WaitBegin(fn, name, timeout)
    \/ WaitTest
    \/ WaitSleep
    \/ KeyChange

\* The thread that waits keeps running: a loop test is made and a sleep ends.
SpecWait == InitInput /\ [][NextWait]_vars /\ WF_vars(WaitTest) /\ WF_vars(WaitSleep)

\* ----------------------------------- calls made on the controllers directly
\* utils/input exposes the controllers' operations with an explicit hwnd
\* (mouse_press_and_hold(hwnd, ...), simulate_mouse_gesture(hwnd, ...)): the
\* caller gets the controller's return value or its exception.
MaxPoints == 2      \* points of one gesture

Destroyed == 9                                \* a handle whose window is gone
Handles == Windows \cup {NoWindow, Destroyed}
Points == {<<0, 0>>, <<MaxCoord, 12>>}
\* (x, y, button, press_duration): button "None" moves only, hold tells
\* whether press_duration is given (it is 0 then)
GesturePoints == {[x |-> MaxCoord, y |-> 12, button |-> "None", hold |-> FALSE],
                  [x |-> MaxCoord, y |-> 12, button |-> "left", hold |-> FALSE],
                  [x |-> MaxCoord, y |-> 12, button |-> "left", hold |-> TRUE]}

\* No window has been selected; the caller passes the handle itself.
InitDriver == InitWith({EmptyCfg}, {<<>>})

DriverResult(s) == IF s.raised THEN "raised" ELSE s.val

DriverCall(r, s) ==
    /\ req' = r
    /\ sent' = s.msgs
    /\ result' = DriverResult(s)
    /\ UNCHANGED <<gwindow, target_window, clock, pressed, wait, task>>

\* Mutant: a gesture of any length is accepted.
TooFewNever(points) == FALSE

\* if len(gesture_points) < 2: raise ValueError
TooFew(points) == Len(points) < 2

RECURSIVE MoveThrough(_, _, _, _)
MoveThrough(st, env, hwnd, points) ==
    IF points = <<>> THEN st
    ELSE LET s == send_mouse_move(st, env, hwnd, Head(points)[1], Head(points)[2])
         IN  IF s.raised THEN s ELSE MoveThrough(s, env, hwnd, Tail(points))

send_complex_gesture(st, env, hwnd, gesture_points, button) ==
    IF TooFew(gesture_points) \/ gesture_points = <<>> THEN Raise(st)
    ELSE LET first == gesture_points[1]
             last == gesture_points[Len(gesture_points)]
             s1 == send_mouse_move(st, env, hwnd, first[1], first[2])
         IN  IF s1.raised THEN s1
             ELSE IF button \notin {"left", "right"} THEN Raise(s1)
             ELSE LET s2 == send_message(s1, env, hwnd, ButtonDown[button][1],
                                         ButtonDown[button][2],
                                         build_lparam_for_mouse(first[1], first[2]))
                      s3 == MoveThrough(s2, env, hwnd, Tail(gesture_points))
                      s4 == send_message(s3, env, hwnd, ButtonUp[button][1],
                                         ButtonUp[button][2],
                                         build_lparam_for_mouse(last[1], last[2]))
                  IN  IF s2.raised THEN s2
                      ELSE IF s3.raised THEN s3
                      ELSE IF s4.raised THEN s4
                      ELSE Ret(s4, "True")

mouse_press_and_hold(st, env, hwnd, x, y, button, duration) ==
    LET s1 == mouse_down_press(st, env, hwnd, x, y, button)
    IN  IF s1.raised THEN s1
        ELSE IF ~Truthy(s1.val) THEN Ret(s1, "False")
        ELSE LET s2 == sleep(s1, duration)
             IN  IF s2.raised THEN s2
                 ELSE mouse_down_release(s2, env, hwnd, x, y, button)

press_mouse_precisely(st, env, hwnd, x, y, button, duration) ==
    LET s1 == mouse_down_press(st, env, hwnd, x, y, button)
    IN  IF s1.raised THEN s1
        ELSE IF ~Truthy(s1.val) THEN Ret(s1, "False")
        ELSE LET s2 == sleep(s1, duration)
             IN  IF s2.raised THEN s2
                 ELSE mouse_down_release(s2, env, hwnd, x, y, button)

\* what simulate_mouse_gesture does at one point after the move to it;
\* val is "stop" where the code returns False
GesturePress(st, env, hwnd, g) ==
    IF g.button = "None" THEN Ret(st, "True")
    ELSE LET s == IF g.hold
                  THEN mouse_press_and_hold(st, env, hwnd, g.x, g.y, g.button, 0)
                  ELSE mouse_down_press(st, env, hwnd, g.x, g.y, g.button)
         IN  IF s.raised THEN s
             ELSE IF ~Truthy(s.val) THEN Ret(s, "stop") ELSE Ret(s, "True")

RECURSIVE GestureFrom(_, _, _, _)
GestureFrom(st, env, hwnd, gesture) ==
    IF gesture = <<>> THEN Ret(st, "True")
    ELSE LET g == Head(gesture)
             s1 == send_mouse_move(st, env, hwnd, g.x, g.y)
             s2 == GesturePress(s1, env, hwnd, g)
         IN  IF s1.raised THEN s1
             ELSE IF s2.raised THEN s2
             ELSE IF s2.val = "stop" THEN Ret(s2, "False")
             ELSE GestureFrom(s2, env, hwnd, Tail(gesture))

simulate_mouse_gesture(st, env, hwnd, gesture) ==
    IF TooFew(gesture) \/ gesture = <<>> THEN Raise(st)
    ELSE GestureFrom(st, env, hwnd, gesture)

SendComplexGesture(hwnd, gesture_points, button, env) ==
    /\ wait.pc = "idle"
    /\ DriverCall([op |-> "send_complex_gesture", hwnd |-> hwnd,
                   points |-> gesture_points, button |-> button, env |-> env],
                  send_complex_gesture(Start, env, hwnd, gesture_points, button))

SimulateMouseGesture(hwnd, gesture, env) ==
    /\ wait.pc = "idle"
    /\ DriverCall([op |-> "simulate_mouse_gesture", hwnd |-> hwnd,
                   points |-> gesture, env |-> env],
                  simulate_mouse_gesture(Start, env, hwnd, gesture))

NextGesture ==
    \/ \E hwnd \in Windows, gesture_points \in ListsUpTo(Points, MaxPoints),
          button \in DragButtons, env \in Envs :
          SendComplexGesture(hwnd, gesture_points, button, env)
    \/ \E hwnd \in Windows, gesture \in ListsUpTo(GesturePoints, MaxPoints),
          env \in Envs :
          SimulateMouseGesture(hwnd, gesture, env)

SpecGesture == InitDriver /\ [][NextGesture]_vars

\* ------------------------------------------------ the message primitives
MaxLines == 2       \* lines of one send_scroll

Chars == {"#", "bogus"}                  \* a character, a longer string
Deltas == {-120, 120}
Directions == {"up", "down", "left", "bogus"}

\* ord(char) raises TypeError for a string that is not one character
send_char(st, env, hwnd, char) ==
    IF char \notin DOMAIN ord THEN Raise(st)
    ELSE send_message(st, env, hwnd, "WM_CHAR", ord[char], 1)

\* wparam = (delta << 16) & 0xFFFF
send_mouse_wheel(st, env, hwnd, delta, x, y) ==
    send_message(st, env, hwnd, "WM_MOUSEWHEEL", (delta * 65536) % 65536,
                 build_lparam_for_mouse(x, y))

send_scroll(st, env, hwnd, direction, lines, x, y) ==
    IF direction \in {"up", "left"}
    THEN send_mouse_wheel(st, env, hwnd, 120 * lines, x, y)
    ELSE IF direction \in {"down", "right"}
    THEN send_mouse_wheel(st, env, hwnd, (0 - 120) * lines, x, y)
    ELSE Raise(st)

KeyPrimitive(name, hwnd, key, env) ==
    /\ wait.pc = "idle"
    /\ DriverCall([op |-> name, hwnd |-> hwnd, key |-> key, env |-> env],
                  CASE name = "send_key_down" -> send_key_down(Start, env, hwnd, key)
                    [] name = "send_key_up" -> send_key_up(Start, env, hwnd, key)
                    [] name = "send_char" -> send_char(Start, env, hwnd, key))

MousePrimitive(name, hwnd, x, y, button, env) ==
    /\ wait.pc = "idle"
    /\ DriverCall([op |-> name, hwnd |-> hwnd, x |-> x, y |-> y, button |-> button,
                   env |-> env],
                  CASE name = "mouse_down_press" ->
                          mouse_down_press(Start, env, hwnd, x, y, button)
                    [] name = "mouse_down_release" ->
                          mouse_down_release(Start, env, hwnd, x, y, button)
                    [] name = "send_mouse_move" ->
                          send_mouse_move(Start, env, hwnd, x, y))

SendMouseWheel(hwnd, delta, x, y, env) ==
    /\ wait.pc = "idle"
    /\ DriverCall([op |-> "send_mouse_wheel", hwnd |-> hwnd, delta |-> delta,
                   x |-> x, y |-> y, env |-> env],
                  send_mouse_wheel(Start, env, hwnd, delta, x, y))

SendScroll(hwnd, direction, lines, env) ==
    /\ wait.pc = "idle"
    /\ DriverCall([op |-> "send_scroll", hwnd |-> hwnd, direction |-> direction,
                   lines |-> lines, env |-> env],
                  send_scroll(Start, env, hwnd, direction, lines, 0, 0))

MousePressAndHold(hwnd, x, y, button, duration, env) ==
    /\ wait.pc = "idle"
    /\ DriverCall([op |-> "mouse_press_and_hold", hwnd |-> hwnd, x |-> x, y |-> y,
                   button |-> button, duration |-> duration, env |-> env],
                  mouse_press_and_hold(Start, env, hwnd, x, y, button, duration))

PressMousePrecisely(hwnd, x, y, button, duration, env) ==
    /\ wait.pc = "idle"
    /\ DriverCall([op |-> "press_mouse_precisely", hwnd |-> hwnd, x |-> x, y |-> y,
                   button |-> button, duration |-> duration, env |-> env],
                  press_mouse_precisely(Start, env, hwnd, x, y, button, duration))

NextPrim ==
    \/ \E name \in {"send_key_down", "send_key_up"}, hwnd \in Handles,
          key \in MainKeys, env \in Envs : KeyPrimitive(name, hwnd, key, env)
    \/ \E hwnd \in Handles, char \in Chars, env \in Envs :
          KeyPrimitive("send_char", hwnd, char, env)
    \/ \E name \in {"mouse_down_press", "mouse_down_release", "send_mouse_move"},
          hwnd \in Handles, button \in ButtonLists, env \in Envs :
          MousePrimitive(name, hwnd, 12, MaxCoord, button, env)
    \/ \E hwnd \in Handles, delta \in Deltas, env \in Envs :
          SendMouseWheel(hwnd, delta, 12, MaxCoord, env)
    \/ \E hwnd \in Windows, direction \in Directions, lines \in 1 .. MaxLines,
          env \in Envs : SendScroll(hwnd, direction, lines, env)
    \/ \E hwnd \in Windows, button \in ButtonLists, duration \in Durations,
          env \in Envs : MousePressAndHold(hwnd, 12, MaxCoord, button, duration, env)
    \/ \E hwnd \in Windows, button \in ButtonLists, duration \in Durations,
          env \in Envs : PressMousePrecisely(hwnd, 12, MaxCoord, button, duration, env)

SpecPrim == InitDriver /\ [][NextPrim]_vars

\* ------------------------------------------- repeated keys and sequences
MaxRepeat == 3      \* repeat of one send_key
MaxDelays == 3      \* delays of one sequence

HotKeys == {"C", "bogus", "ctrl+C", "shift+ctrl+#"}
SequenceKeys == {"C", "ctrl+C"}
\* delays=None, or a list of delays
DelayLists == {[none |-> TRUE, list |-> <<>>]}
              \cup {[none |-> FALSE, list |-> l] : l \in ListsUpTo({0}, MaxDelays)}

Min(a, b) == IF a < b THEN a ELSE b
Repeat(x, n) == [i \in 1 .. n |-> x]

\* for key, delay in zip(keys, delays), from the i-th pair on
RECURSIVE HotkeysFrom(_, _, _, _, _, _)
HotkeysFrom(st, env, hwnd, keys, delays, i) ==
    IF i > Min(Len(keys), Len(delays)) THEN Ret(st, "True")
    ELSE Then(Then(IF Len(split(keys[i])) > 1
                   THEN send_key_combination(st, env, hwnd, keys[i], 0)
                   ELSE send_key(st, env, hwnd, keys[i], 1, 0),
                   LAMBDA s : sleep(s, delays[i])),
              LAMBDA s : HotkeysFrom(s, env, hwnd, keys, delays, i + 1))

send_hotkey_sequence(st, env, hwnd, keys, delays) ==
    HotkeysFrom(st, env, hwnd, keys,
                IF delays.none THEN Repeat(0, Len(keys)) ELSE delays.list, 1)

\* the value of the button-down is dropped
send_mouse_click(st, env, hwnd, x, y, button) ==
    IF button \notin DOMAIN ButtonDown THEN Raise(st)
    ELSE Then(send_message(st, env, hwnd, ButtonDown[button][1],
                           ButtonDown[button][2], build_lparam_for_mouse(x, y)),
              LAMBDA s : send_message(s, env, hwnd, ButtonUp[button][1],
                                      ButtonUp[button][2],
                                      build_lparam_for_mouse(x, y)))

\* for i, ((x, y), delay) in enumerate(zip(positions, delays)), from the
\* i-th pair on
RECURSIVE ClicksFrom(_, _, _, _, _, _, _)
ClicksFrom(st, env, hwnd, positions, button, delays, i) ==
    IF i > Min(Len(positions), Len(delays)) THEN Ret(st, "True")
    ELSE Then(Then(Then(send_mouse_move(st, env, hwnd, positions[i][1],
                                        positions[i][2]),
                        LAMBDA s : send_mouse_click(s, env, hwnd, positions[i][1],
                                                    positions[i][2], button)),
                   LAMBDA s : IF i < Len(positions) THEN sleep(s, delays[i]) ELSE s),
              LAMBDA s : ClicksFrom(s, env, hwnd, positions, button, delays, i + 1))

send_click_sequence(st, env, hwnd, positions, button, delays) ==
    ClicksFrom(st, env, hwnd, positions, button,
               IF delays.none THEN Repeat(0, Len(positions)) ELSE delays.list, 1)

SendKey(hwnd, key, repeat, delay, env) ==
    /\ wait.pc = "idle"
    /\ DriverCall([op |-> "send_key", hwnd |-> hwnd, key |-> key, repeat |-> repeat,
                   delay |-> delay, env |-> env],
                  send_key(Start, env, hwnd, key, repeat, delay))

SendHotkeySequence(hwnd, keys, delays, env) ==
    /\ wait.pc = "idle"
    /\ DriverCall([op |-> "send_hotkey_sequence", hwnd |-> hwnd, keys |-> keys,
                   delays |-> delays, env |-> env],
                  send_hotkey_sequence(Start, env, hwnd, keys, delays))

SendClickSequence(hwnd, positions, button, delays, env) ==
    /\ wait.pc = "idle"
    /\ DriverCall([op |-> "send_click_sequence", hwnd |-> hwnd,
                   positions |-> positions, button |-> button, delays |-> delays,
                   env |-> env],
                  send_click_sequence(Start, env, hwnd, positions, button, delays))

\* The calls of this section drop the values the window returns.
Failures == {e \in Envs : e.wres = 1}

NextRepeat ==
    \/ \E key \in HotKeys, repeat \in 1 .. MaxRepeat, delay \in Durations,
          env \in Failures : SendKey(1, key, repeat, delay, env)
    \/ \E keys \in ListsUpTo(SequenceKeys, MaxSteps), delays \in DelayLists,
          env \in Failures : SendHotkeySequence(1, keys, delays, env)
    \/ \E positions \in ListsUpTo(Points, MaxPoints), button \in {"left", "bogus"},
          delays \in DelayLists, env \in Failures :
          SendClickSequence(1, positions, button, delays, env)

SpecRepeat == InitDriver /\ [][NextRepeat]_vars

\* ---------------------------------------------------------- two tasks
\* The UI thread starts and stops two enabled tasks; the script threads run
\* beside it.
InitPair == InitWith({[t \in Tasks |-> "enabled"]}, {<<>>})

NextPair ==
    \/ TaskStep(MainThread, Tasks)
    \/ \E r \in 1..MaxRunners : ThreadStep(r)

SpecPair == InitPair /\ [][NextPair]_vars


\* ------------------------------------------------------------ GlobalManager
MaxListeners == 2   \* registrations with add_listener
MaxHistory == 1     \* _max_history

StoreKeys == {"a", "b"}
StoreValues == {"None", "x"}
Callbacks == {1, 2}
Raising == {2}                  \* callbacks that raise when called

\* self._data.get(key)
get(key) == IF data[key] = "absent" THEN "None" ELSE data[key]

\* self._event_history.append(event); beyond _max_history the oldest goes
Recorded(key) ==
    LET h == Append(history, key)
    IN  IF Len(h) > MaxHistory THEN Tail(h) ELSE h

\* Mutant: the first listener that raises ends the notification.
RECURSIVE CalledUntilRaising(_, _, _, _)
CalledUntilRaising(cbs, key, new_value, old_value) ==
    IF cbs = <<>> THEN <<>>
    ELSE IF Head(cbs) \in Raising THEN << <<Head(cbs), key, new_value, old_value>> >>
    ELSE << <<Head(cbs), key, new_value, old_value>> >>
         \o CalledUntilRaising(Tail(cbs), key, new_value, old_value)

\* for callback in self._listeners[key]: try: callback(key, new, old),
\* except Exception: the error is logged
RECURSIVE CalledListeners(_, _, _, _)
CalledListeners(cbs, key, new_value, old_value) ==
    IF cbs = <<>> THEN <<>>
    ELSE << <<Head(cbs), key, new_value, old_value>> >>
         \o CalledListeners(Tail(cbs), key, new_value, old_value)

\* GlobalManager.set(key, value, notify), under the lock of the store
Set(key, value, notify) ==
    /\ wait.pc = "idle"
    /\ LET old_value == get(key)
       IN  /\ data' = [data EXCEPT ![key] = value, !["last_activity"] = "time"]
           /\ IF notify /\ old_value # value
              THEN /\ history' = Recorded(key)
                   /\ notified' = CalledListeners(listeners[key], key, value, old_value)
              ELSE /\ history' = history
                   /\ notified' = <<>>
    /\ req' = [op |-> "set", key |-> key, value |-> value, notify |-> notify]
    /\ UNCHANGED <<listeners, gwindow, target_window, sent, result, clock, pressed,
                   wait, mgr, runners, gstatus, received, events, call>>

\* GlobalManager.add_listener(key, callback): appended, also when present
AddListener(key, callback) ==
    /\ wait.pc = "idle"
    /\ Len(listeners["a"]) + Len(listeners["b"]) < MaxListeners
    /\ listeners' = [listeners EXCEPT ![key] = Append(@, callback)]
    /\ req' = [op |-> "add_listener", key |-> key, callback |-> callback]
    /\ UNCHANGED <<data, history, notified, gwindow, target_window, sent, result,
                   clock, pressed, wait, mgr, runners, gstatus, received, events, call>>

NextStore ==
    \/ \E key \in StoreKeys, value \in StoreValues, notify \in BOOLEAN :
          Set(key, value, notify)
    \/ \E key \in StoreKeys, callback \in Callbacks : AddListener(key, callback)

SpecStore == InitDriver /\ [][NextStore]_vars


\* ======================================================================
\* Properties
\* ======================================================================
\* The runner the active table holds for t is RUNNING.
TableRunning(t) ==
    /\ task_runners[t] # NoRunner
    /\ runners[task_runners[t]].status = RUNNING

\* Caller c is inside stop_task(t).
Stopping(c, t) == op[c] = "stop" /\ arg[c] = t /\ pc[c] # "idle"

\* The step is one of caller c and ends its start_task call.
StartReturns(c) ==
    /\ op'[c] = "start"
    /\ pc'[c] = "idle"
    /\ <<pc[c], op[c], arg[c], ret[c], log[c], made[c]>>
         # <<pc'[c], op'[c], arg'[c], ret'[c], log'[c], made'[c]>>

\* Number of records of type etype for task t in an observer's log.
Count(lg, etype, t) == Cardinality({i \in DOMAIN lg : lg[i] = <<etype, t>>})

\* C1 (Spec): for every task id at most one runner that was started is
\* RUNNING with a live script thread, under every interleaving of
\* concurrent start_task calls.  Violated: the check of the table and the
\* registration are separate steps, and two callers pass the check.
C1_OneRunningRunnerPerId ==
    \A t \in Tasks :
        Cardinality({r \in RunnerIds : /\ runners[r].task_id = t
                                        /\ runners[r].status = RUNNING
                                        /\ IsAlive(r)}) <= 1

\* C2 (SpecSeq): for every task id at most one script thread is inside the
\* body, whatever sequence of start_task / stop_task calls the UI thread
\* makes.  Violated after a stop_task whose join timed out.
C2_OneBodyThreadPerId ==
    \A t \in Tasks :
        Cardinality({r \in RunnerIds : /\ runners[r].task_id = t
                                        /\ runners[r].script_thread = "body"}) <= 1

\* C3 (SpecSeq): when the table holds a RUNNING runner for the id at the check
\* of start_task, the call returns False, creates no runner, leaves the
\* table and every runner as they are and publishes nothing.
C3_RunningStartRejected ==
    [][\A c \in Callers :
          (pc[c] = "st_check" /\ TableRunning(arg[c]) /\ pc'[c] # "st_check")
          => /\ pc'[c] = "idle"
             /\ ret'[c] = "false"
             /\ made'[c] = NoRec
             /\ runners' = runners
             /\ task_runners' = task_runners
             /\ received' = received]_vars

C3_Witness ==
    \E c \in Callers :
        /\ pc[c] = "idle" /\ op[c] = "start" /\ ret[c] = "false"
        /\ log[c] = "already_running"
        /\ TableRunning(arg[c])

\* C4 (SpecSeq): start_task returns True exactly when it has stored a new
\* runner in the table and published task_started to the observers; when
\* it returns False the table, every runner, the observers' logs are
\* unchanged and no thread was started.
C4_StartTaskFrame ==
    [][\A c \in Callers :
          /\ (pc[c] = "idle" /\ pc'[c] = "st_check")
             => UNCHANGED <<task_runners, runners, received>>
          /\ (pc[c] = "st_reg" /\ pc'[c] # "st_reg")
             => /\ pc'[c] = "st_notify"
                /\ task_runners'[arg[c]] = runner[c]
                /\ runners[runner[c]].script_thread # "none"
          /\ StartReturns(c)
             => IF ret'[c] = "true"
                THEN /\ pc[c] = "st_notify"
                     /\ task_runners[arg[c]] = runner[c]
                     /\ runner[c] # NoRunner
                     /\ \A o \in Observers :
                          received'[o] = Append(received[o], <<"task_started", arg[c]>>)
                ELSE /\ ret'[c] = "false"
                     /\ task_runners' = task_runners
                     /\ runners' = runners
                     /\ received' = received
                     /\ made'[c].script_thread = "none"]_vars

C4_Witness ==
    \E c \in Callers :
        /\ pc[c] = "idle" /\ op[c] = "start" /\ ret[c] = "false"
        /\ log[c] = "load_failed"
        /\ task_runners[arg[c]] # NoRunner
        /\ \A o \in Observers : Count(received[o], "task_started", arg[c]) = 1

\* C5 (SpecSeq): a stop_task call that found an entry for the id ends with the
\* entry removed and one task_stopped record delivered to every observer,
\* also when the registry was reloaded since the start.  Violated: nothing
\* is published when the reloaded registry has no definition of the id.
C5_StopTaskRemovesAndNotifies ==
    [][\A c \in Callers :
          (pc[c] = "sp_notify" /\ pc'[c] = "idle")
          => /\ task_runners'[arg[c]] = NoRunner
             /\ \A o \in Observers :
                  received'[o] = Append(received[o], <<"task_stopped", arg[c]>>)]_vars

\* C6 (SpecRunner): a stop() that follows a completed stop() of the same
\* runner, with no other call in between, returns at the STOPPED check: it
\* sets no flag, calls no hook, waits for nothing and writes no status.
\* Violated: a body that outlives the join and then raises puts the runner
\* in ERROR between the two calls.
C6_SecondStopReturnsAtOnce ==
    [][\A c \in Callers :
          (pc[c] = "idle" /\ op[c] = "rstop" /\ op'[c] = "rstop" /\ arg'[c] = arg[c])
          => /\ pc'[c] = "idle"
             /\ runners'[arg[c]].hook_calls = runners[arg[c]].hook_calls]_vars

\* C7 (Spec): no stop_task call raises, whatever other call runs beside it.
\* Violated: two callers pass the membership test, the second del (or
\* lookup) raises KeyError.
C7_StopTaskNeverRaises ==
    \A c \in Callers : op[c] = "stop" => ret[c] # "raised"

\* C8 as stated (SpecSeq): once the body of the registered runner of an id
\* has raised, get_task_status(id) is ERROR until the task is stopped or
\* started again (looked at between the calls of the UI thread).
\* Violated: a reload that disables or drops the definition makes it DISABLED.
C8_ErrorUntilStopOrStart ==
    \A t \in Tasks :
        LET r == task_runners[t] IN
        (/\ r # NoRunner
         /\ runners[r].script_thread \in {"fin_error", "failed"}
         /\ \A c \in Callers : pc[c] = "idle")
        => GetTaskStatus(t) = ERROR

\* C8 as amended (SpecSeq): no start_task call raises, and once the body of
\* the registered runner of an id has raised, the runner is in ERROR and,
\* while the registry holds an enabled definition of the id,
\* get_task_status(id) is ERROR, until the task is stopped or started again.
C8_ErrorWhileEnabled ==
    /\ \A c \in Callers : op[c] = "start" => ret[c] # "raised"
    /\ \A t \in Tasks :
        LET r == task_runners[t] IN
        (/\ r # NoRunner
         /\ runners[r].script_thread \in {"fin_error", "failed"}
         /\ \A c \in Callers : ~Stopping(c, t))
        => /\ runners[r].status = ERROR
           /\ tasks[t] = "enabled" => GetTaskStatus(t) = ERROR

C8_Witness ==
    \E t \in Tasks :
        /\ task_runners[t] # NoRunner
        /\ runners[task_runners[t]].script_thread = "failed"
        /\ tasks[t] = "enabled"
        /\ \A c \in Callers : pc[c] = "idle"
        /\ GetTaskStatus(t) = ERROR

\* C9 as stated (SpecSeq): when loading the script raises, start() returns
\* False and the runner's status is ERROR.  Violated: the status stays STOPPED.
C9_LoadFailureSetsError ==
    \A c \in Callers :
        made[c].load = "raised" => (ret[c] = "false" /\ made[c].status = ERROR)

\* C9 as amended (SpecSeq): when loading the script raises, start() returns
\* False, the runner's status stays STOPPED (it is never RUNNING, and not
\* ERROR) and no thread is started.
C9_LoadFailureLeavesStopped ==
    \A c \in Callers :
        made[c].load = "raised"
        => /\ ret[c] = "false"
           /\ made[c].status = STOPPED
           /\ made[c].script_thread = "none"
           /\ made[c].script_instance = "none"

C9_Witness ==
    \E c \in Callers : made[c].load = "raised" /\ op[c] = "start" /\ pc[c] = "idle"

\* C10 (SpecSeq): after a start_task that returned False because the runner
\* could not be started, get_task_status of the enabled task is READY.
\* Violated: the ERROR runner of an earlier run is still in the table.
C10_FailedStartLeavesReady ==
    \A c \in Callers :
        (/\ pc[c] = "idle" /\ op[c] = "start" /\ ret[c] = "false"
         /\ log[c] \in {"unavailable", "load_failed", "start_failed"}
         /\ tasks[arg[c]] = "enabled")
        => GetTaskStatus(arg[c]) = READY

\* C11 (SpecSeq): every change of the status of a runner is STOPPED -> RUNNING,
\* RUNNING -> STOPPED or RUNNING -> ERROR, and the status of a runner in
\* ERROR never changes.  Violated: stop() assigns STOPPED to a runner in
\* ERROR (line 178), and the script thread assigns ERROR to a runner that
\* stop() left STOPPED (line 230).
C11_StatusTransitions ==
    [][\A r \in RunnerIds :
          runners'[r].status # runners[r].status
          => <<runners[r].status, runners'[r].status>>
                \in {<<STOPPED, RUNNING>>, <<RUNNING, STOPPED>>, <<RUNNING, ERROR>>}]_vars

\* C12 (SpecQuery): get_task_status(id) returns DISABLED when the registry has
\* no definition of id or the definition is not enabled; otherwise RUNNING
\* or ERROR when the active table holds a runner of id with that status;
\* otherwise READY (so READY for an enabled task without a runner); and the
\* call changes nothing of the manager, the runners or the shared state.
C12_StatusIsPureFunction ==
    [][\A c \in Callers :
          (/\ op'[c] = "status"
           /\ <<op[c], arg[c], ret[c]>> # <<op'[c], arg'[c], ret'[c]>>)
          => LET t == arg'[c]
                 r == task_runners[t] IN
             /\ ret'[c] = IF tasks[t] \in {"absent", "disabled"} THEN "disabled"
                          ELSE IF r # NoRunner /\ runners[r].status = "running"
                               THEN "running"
                          ELSE IF r # NoRunner /\ runners[r].status = "error"
                               THEN "error"
                          ELSE "ready"
             /\ (tasks[t] = "enabled" /\ r = NoRunner) => ret'[c] = "ready"
             /\ UNCHANGED <<tasks, task_runners, task_callbacks, runners,
                            gstatus, received>>]_vars

C12_Witness ==
    \E c \in Callers :
        /\ pc[c] = "idle" /\ op[c] = "status" /\ ret[c] = "disabled"
        /\ tasks[arg[c]] = "disabled"
        /\ TableRunning(arg[c])

\* C13 (SpecLive): when the body of a runner has ended by itself (it returned
\* or raised, no stop was requested) and an observer has not been told
\* of a lifecycle event of the task, the observer is eventually told
\* task_stopped or task_error.  Violated: _run_script writes the status
\* key only; nothing calls _notify_callbacks.
C13_TerminationPublished ==
    \A r \in 1..MaxRunners : \A t \in Tasks : \A o \in Observers :
        (/\ r \in RunnerIds
         /\ runners[r].task_id = t
         /\ runners[r].script_thread \in {"ended", "failed"}
         /\ ~runners[r].stop_event
         /\ Count(received[o], "task_stopped", t) = 0
         /\ Count(received[o], "task_error", t) = 0)
        ~> (Count(received[o], "task_stopped", t)
              + Count(received[o], "task_error", t) > 0)

\* Number of entries of the callback list that are observer o.
Registrations(o) == Cardinality({i \in DOMAIN task_callbacks : task_callbacks[i] = o})

\* k copies of the event ev.
Copies(k, ev) == [i \in 1..k |-> ev]

\* The step ends a start_task call of caller c with True.
StartSucceeds(c) == pc[c] = "st_notify" /\ pc'[c] = "idle" /\ ret'[c] = "true"

\* C14 as stated (SpecObs): a successful start_task(id) delivers to every
\* registered observer exactly one event (task_started, id) and nothing to
\* the others.  Violated: a callback that was registered twice is called
\* twice.
C14_OneEventPerObserver ==
    [][\A c \in Callers :
          StartSucceeds(c)
          => \A o \in Observers :
                received'[o] = IF Registrations(o) > 0
                               THEN Append(received[o], <<"task_started", arg[c]>>)
                               ELSE received[o]]_vars

\* C14 as amended (SpecObs): a successful start_task(id) calls the registered
\* callbacks once per entry of the list, in registration order, each with
\* the event (task_started, id), and makes no other call; an observer
\* registered k times receives the event k times.
C14_OneEventPerRegistration ==
    [][\A c \in Callers :
          StartSucceeds(c)
          => /\ events' = events \o [i \in 1..Len(task_callbacks) |->
                                       <<task_callbacks[i], "task_started", arg[c]>>]
             /\ \A o \in Observers :
                  received'[o] = received[o]
                                  \o Copies(Registrations(o), <<"task_started", arg[c]>>)]_vars

C14_Witness ==
    \E c \in Callers :
        /\ pc[c] = "idle" /\ op[c] = "start" /\ ret[c] = "true"
        /\ task_callbacks = <<2, 1>>
        /\ events = <<<<2, "task_started", arg[c]>>, <<1, "task_started", arg[c]>>>>

\* C15 (SpecObs): when a registered callback raises, the callbacks after it
\* are still called, start_task still returns True with its runner in the
\* table, and stop_task still removes the runner and returns without
\* raising.
C15_RaisingObserverIsolated ==
    [][\A c \in Callers :
          (/\ pc[c] \in {"st_notify", "sp_notify"}
           /\ pc'[c] = "idle"
           /\ \E i \in DOMAIN task_callbacks : task_callbacks[i] \in Throwing)
          => /\ \A o \in Observers :
                  Len(received'[o]) = Len(received[o]) + Registrations(o)
             /\ Len(events') = Len(events) + Len(task_callbacks)
             /\ pc[c] = "st_notify"
                => (ret'[c] = "true" /\ task_runners'[arg[c]] = runner[c]
                    /\ runner[c] # NoRunner)
             /\ pc[c] = "sp_notify"
                => (ret'[c] # "raised" /\ task_runners'[arg[c]] = NoRunner)]_vars

C15_Witness ==
    \E c \in Callers :
        /\ pc[c] = "idle" /\ op[c] = "stop" /\ log[c] = "callback_failed"
        /\ task_callbacks = <<2, 1>>
        /\ task_runners[arg[c]] = NoRunner
        /\ received[1] = <<<<"task_started", arg[c]>>, <<"task_stopped", arg[c]>>>>

\* C16 (SpecSelf): a stop() that the body calls on its own runner never waits
\* in join for its own thread; it sets STOPPED, writes the status key and
\* returns into the body with the status STOPPED, and it always returns.
C16_SelfStopDoesNotWait ==
    /\ [](\A r \in RunnerIds : runners[r].script_thread # "self_join")
    /\ [][\A r \in RunnerIds :
             /\ (runners[r].script_thread = "body"
                   /\ runners'[r].script_thread \notin {"body", "fin_stopped",
                                                        "fin_error", "ended"})
                => /\ runners'[r].script_thread = "self_setg"
                   /\ runners'[r].stop_event
                   /\ runners'[r].status = STOPPED
             /\ (runners[r].script_thread = "self_setg"
                   /\ runners'[r].script_thread # "self_setg")
                => /\ runners'[r].script_thread = "body"
                   /\ runners'[r].status = STOPPED
                   /\ gstatus'[runners[r].task_id] = STOPPED]_vars
    /\ \A r \in 1..MaxRunners :
          (r \in RunnerIds /\ runners[r].script_thread = "self_setg")
          ~> (/\ r \in RunnerIds
              /\ runners[r].script_thread = "body"
              /\ runners[r].status = STOPPED)

C16_Witness ==
    \E r \in RunnerIds :
        /\ runners[r].script_thread = "body"
        /\ runners[r].status = STOPPED
        /\ runners[r].stop_event
        /\ runners[r].hook_calls = 1
        /\ task_runners[runners[r].task_id] = r
        /\ gstatus[runners[r].task_id] = STOPPED

C19_StatusKeyAgrees ==
    \A t \in Tasks :
        LET r == task_runners[t] IN
        (/\ r # NoRunner
         /\ \A c \in Callers : pc[c] = "idle"
         /\ \A q \in RunnerIds : runners[q].task_id = t => q = r
         /\ runners[r].script_thread \in {"body", "ended", "failed"})
        => gstatus[t] = runners[r].status

\* C20 (SpecReload): a lookup that runs beside a reload sees the table of
\* before the reload or the table of after it; as both define every task,
\* get_task never returns None.  Violated: load_tasks clears self.tasks and
\* then inserts the definitions one by one, with no lock.
C20_ReloadIsAtomic ==
    \A c \in Callers : op[c] = "get_task" => ret[c] # "absent"

\* ------------------------------------------------------- input subsystem
KeyDown(hwnd, key) ==
    [hwnd |-> hwnd, msg |-> "WM_KEYDOWN", wparam |-> get_virtual_key(key), lparam |-> 1]
KeyUp(hwnd, key) ==
    [hwnd |-> hwnd, msg |-> "WM_KEYUP", wparam |-> get_virtual_key(key), lparam |-> 1]

\* The step is an input operation of the facade that asks for a message.
InputStep ==
    \/ \E key \in MainKeys, env \in Envs : KeyDownPress(key, env)
    \/ \E actions \in ListsUpTo(ActionSet, MaxActions), env \in Envs :
          /\ \E i \in DOMAIN actions : actions[i].type = "key"
          /\ ExecuteActionSequence(actions, env)

\* C21: every input operation of the facade acts on the window stored under
\* target_window in Shared Process State when the operation is called: its
\* messages go to that window's handle and to no other, and if the key is
\* cleared the operation fails and delivers nothing.
C21_CurrentWindowUsed ==
    [][(\E key \in MainKeys, env \in Envs : KeyDownPress(key, env)) =>
          /\ \A i \in DOMAIN sent' : sent'[i].hwnd = gwindow
          /\ gwindow = NoWindow => sent' = <<>> /\ result' = "False"
          /\ (gwindow # NoWindow /\ KnownKey(req'.key) /\ req'.env.fail_at # 1)
             => sent' = <<KeyDown(gwindow, req'.key)>>]_vars

\* C22: an input operation called while the facade resolves no target window
\* returns failure and delivers no message.
C22_NoTargetFails ==
    [][(InputStep /\ get_target_window_handle = NoWindow)
          => result' = "False" /\ sent' = <<>>]_vars

AllKnown(keys) == \A i \in DOMAIN keys : KnownKey(keys[i])

\* C23: a chord of known keys whose deliveries all succeed makes the window
\* receive m1-down .. mn-down, k-down, k-up, mn-up .. m1-up and nothing else,
\* and returns True.
C23_ChordSequence ==
    (req.op = "send_chord_key" /\ target_window # NoWindow
       /\ AllKnown(req.modifiers) /\ KnownKey(req.key) /\ req.env.fail_at = 0)
    => LET n == Len(req.modifiers)
           h == target_window
       IN  /\ result = "True"
           /\ sent = [i \in 1 .. 2 * n + 2 |->
                        IF i <= n THEN KeyDown(h, req.modifiers[i])
                        ELSE IF i = n + 1 THEN KeyDown(h, req.key)
                        ELSE IF i = n + 2 THEN KeyUp(h, req.key)
                        ELSE KeyUp(h, req.modifiers[2 * n + 3 - i])]

C23_Witness ==
    /\ req.op = "send_chord_key"
    /\ req.modifiers = <<"ctrl", "shift">>
    /\ req.env.fail_at = 0
    /\ result = "True"
    /\ Len(sent) = 6
    /\ sent[5].wparam = 16 /\ sent[6].wparam = 17

\* C24: when the main key of a chord cannot be pressed or released after the
\* modifiers were pressed, the call returns failure and every pressed
\* modifier has received a key-up after its key-down.
C24_ModifiersReleasedOnFailure ==
    (req.op = "send_chord_key" /\ target_window # NoWindow
       /\ AllKnown(req.modifiers)
       /\ req.env.fail_at \notin 1 .. Len(req.modifiers)
       /\ (~KnownKey(req.key)
             \/ req.env.fail_at \in {Len(req.modifiers) + 1, Len(req.modifiers) + 2}))
    => /\ result = "False"
       /\ \A i \in DOMAIN req.modifiers :
             \E j \in DOMAIN sent :
                 j > Len(req.modifiers) /\ sent[j] = KeyUp(target_window, req.modifiers[i])

\* the first step of a key sequence that fails (Len + 1 if none does)
FirstFailure(key_sequence, env) ==
    LET F == {i \in DOMAIN key_sequence :
                 ~KnownKey(key_sequence[i][1]) \/ i = env.fail_at}
    IN  IF F = {} THEN Len(key_sequence) + 1
        ELSE CHOOSE i \in F : \A j \in F : i <= j

\* C25: send_key_sequence delivers one message per step, in list order
\* (key-down if is_press, else key-up), up to the first step that fails; it
\* delivers nothing for or after that step and then returns failure.
C25_SequenceInOrder ==
    (req.op = "send_key_sequence" /\ target_window # NoWindow)
    => LET f == FirstFailure(req.key_sequence, req.env)
       IN  /\ sent = [i \in 1 .. f - 1 |->
                        IF req.key_sequence[i][2]
                        THEN KeyDown(target_window, req.key_sequence[i][1])
                        ELSE KeyUp(target_window, req.key_sequence[i][1])]
           /\ result = IF f > Len(req.key_sequence) THEN "True" ELSE "False"

C25_Witness ==
    /\ req.op = "send_key_sequence"
    /\ target_window # NoWindow
    /\ Len(req.key_sequence) = 2
    /\ FirstFailure(req.key_sequence, req.env) = 2
    /\ Len(sent) = 1
    /\ result = "False"

\* C26: holding a known key on a valid window delivers one key-down and then
\* one key-up, whatever the duration.
C26_HoldSendsDownThenUp ==
    (req.op = "key_press_and_hold" /\ target_window # NoWindow
       /\ KnownKey(req.key) /\ req.env.fail_at = 0)
    => sent = <<KeyDown(target_window, req.key), KeyUp(target_window, req.key)>>

MouseX(m) == m.lparam % 65536
MouseY(m) == m.lparam \div 65536
ButtonMessage(hwnd, x, y, kind) ==
    [hwnd |-> hwnd, msg |-> kind[1], wparam |-> kind[2], lparam |-> y * 65536 + x]
AllButtons(buttons) == \A i \in DOMAIN buttons : buttons[i] \in {"left", "right", "middle"}

\* C27: release_multi_button of known buttons on a window where every delivery
\* succeeds delivers one button-up per listed button, in the reverse of the
\* listed order, and reports success, whatever the window returns for a message.
C27_ReleaseInReverse ==
    (req.op = "release_multi_button" /\ target_window # NoWindow
       /\ AllButtons(req.buttons) /\ req.env.fail_at = 0)
    => LET n == Len(req.buttons)
       IN  /\ sent = [i \in 1 .. n |->
                        ButtonMessage(target_window, req.x, req.y,
                                      ButtonUp[req.buttons[n + 1 - i]])]
           /\ Truthy(result)

\* the first button of the list whose press fails (Len + 1 if none does)
FirstFailedPress(buttons, env) ==
    LET F == {i \in DOMAIN buttons :
                 buttons[i] \notin {"left", "right", "middle"} \/ i = env.fail_at}
    IN  IF F = {} THEN Len(buttons) + 1
        ELSE CHOOSE i \in F : \A j \in F : i <= j

\* C28: send_multi_button_press delivers the button-downs in list order up to
\* the first press that fails; if none fails it delivers one button-down per
\* button and reports success; if press f fails it delivers no later
\* button-down, a button-up for every button pressed before f, and reports
\* failure.
C28_PressAllOrRelease ==
    (req.op = "send_multi_button_press" /\ target_window # NoWindow)
    => LET f == FirstFailedPress(req.buttons, req.env)
           n == Len(req.buttons)
           h == target_window
       IN  /\ Len(sent) >= f - 1
           /\ \A i \in 1 .. f - 1 :
                 sent[i] = ButtonMessage(h, req.x, req.y, ButtonDown[req.buttons[i]])
           /\ f > n => Len(sent) = n /\ Truthy(result)
           /\ f <= n =>
                 /\ ~Truthy(result)
                 /\ \A j \in f .. Len(sent) : sent[j].msg \notin
                       {"WM_LBUTTONDOWN", "WM_RBUTTONDOWN", "WM_MBUTTONDOWN"}
                 /\ \A i \in 1 .. f - 1 : \E j \in f .. Len(sent) :
                       sent[j] = ButtonMessage(h, req.x, req.y, ButtonUp[req.buttons[i]])

\* C29: a drag with the left or the right button whose deliveries all succeed
\* puts the button down at the start point (after a move to that point), then
\* sends max(1, |dx| div 10) + 1 moves of which the first is the start point,
\* the last is the end point and whose x and y never go back, then lets the
\* button up at the end point, and returns True.
C29_DragPath ==
    (req.op = "drag_and_drop" /\ target_window # NoWindow
       /\ req.button \in {"left", "right"} /\ req.env.fail_at = 0)
    => LET h == target_window
           n == Len(sent)
           dx == IF req.end_x >= req.start_x THEN req.end_x - req.start_x
                 ELSE req.start_x - req.end_x
           count == (IF dx \div 10 >= 1 THEN dx \div 10 ELSE 1) + 1
           Between(a, b, c) == (a <= b /\ b <= c) \/ (a >= b /\ b >= c)
       IN  /\ result = "True"
           /\ n = count + 3
           /\ sent[1] = [hwnd |-> h, msg |-> "WM_MOUSEMOVE", wparam |-> 0,
                         lparam |-> req.start_y * 65536 + req.start_x]
           /\ sent[2] = ButtonMessage(h, req.start_x, req.start_y, ButtonDown[req.button])
           /\ sent[n] = ButtonMessage(h, req.end_x, req.end_y, ButtonUp[req.button])
           /\ \A i \in 3 .. n - 1 : sent[i].msg = "WM_MOUSEMOVE" /\ sent[i].hwnd = h
           /\ MouseX(sent[3]) = req.start_x /\ MouseY(sent[3]) = req.start_y
           /\ MouseX(sent[n - 1]) = req.end_x /\ MouseY(sent[n - 1]) = req.end_y
           /\ \A i \in 3 .. n - 2 :
                 /\ Between(req.start_x, MouseX(sent[i]), MouseX(sent[i + 1]))
                 /\ Between(MouseX(sent[i]), MouseX(sent[i + 1]), req.end_x)
                 /\ Between(req.start_y, MouseY(sent[i]), MouseY(sent[i + 1]))
                 /\ Between(MouseY(sent[i]), MouseY(sent[i + 1]), req.end_y)

C29_Witness ==
    /\ req.op = "drag_and_drop"
    /\ req.start_x = 0 /\ req.end_x = MaxCoord /\ req.start_y = MaxCoord /\ req.end_y = 0
    /\ req.button = "left" /\ req.env.fail_at = 0
    /\ result = "True"
    /\ Len(sent) = 6
    /\ sent[4].msg = "WM_MOUSEMOVE"
    /\ MouseX(sent[4]) > 0 /\ MouseX(sent[4]) < MaxCoord

\* C30: a wait for a key or button that can be polled ends; it returns False
\* only when the timeout has elapsed and no poll saw the key released, it
\* returns True only when a poll saw it released, and it does not raise.
C30_WaitsTerminate ==
    /\ [](wait.pc = "done" =>
            /\ wait.ret = "raised" => wait.fn = "key" /\ ~KnownKey(wait.name)
            /\ wait.ret = "True" => wait.observed = "released"
            /\ wait.ret = "False" =>
                  /\ clock - wait.start_time >= wait.timeout
                  /\ wait.observed # "released")
    /\ (wait.pc \in {"test", "sleep"}) ~> (wait.pc = "done")

C30_Witness ==
    /\ wait.pc = "done"
    /\ wait.ret = "False"
    /\ wait.timeout = MaxTimeout
    /\ wait.observed = "pressed"
    /\ clock - wait.start_time >= MaxTimeout

\* C31: a gesture of fewer than two points is refused: the call raises and
\* the window has received nothing.
C31_ShortGestureRejected ==
    (req.op \in {"send_complex_gesture", "simulate_mouse_gesture"}
       /\ Len(req.points) < 2)
    => result = "raised" /\ sent = <<>>

C31_Witness ==
    /\ req.op = "simulate_mouse_gesture"
    /\ Len(req.points) = 1
    /\ req.points[1].button = "left"
    /\ req.env.fail_at = 0
    /\ result = "raised"
    /\ sent = <<>>

\* C32: a controller operation called with an unsupported button name reports
\* the failure and has delivered nothing to the window.
C32_ValidationHasNoEffect ==
    (req.op = "send_complex_gesture" /\ req.button \notin {"left", "right"})
    => result = "raised" /\ sent = <<>>

Primitives == {"send_key_down", "send_key_up", "send_char", "mouse_down_press",
               "mouse_down_release", "send_mouse_move", "send_mouse_wheel"}

\* The arguments of the primitive name a key, a character or a button.
ValidArguments ==
    /\ req.op \in {"send_key_down", "send_key_up"} => KnownKey(req.key)
    /\ req.op = "send_char" => req.key = "#"
    /\ req.op \in {"mouse_down_press", "mouse_down_release"}
          => req.button \in {"left", "right", "middle"}

PrimitiveMessage ==
    CASE req.op = "send_key_down" -> "WM_KEYDOWN"
      [] req.op = "send_key_up" -> "WM_KEYUP"
      [] req.op = "send_char" -> "WM_CHAR"
      [] req.op = "mouse_down_press" -> ButtonDown[req.button][1]
      [] req.op = "mouse_down_release" -> ButtonUp[req.button][1]
      [] req.op = "send_mouse_move" -> "WM_MOUSEMOVE"
      [] req.op = "send_mouse_wheel" -> "WM_MOUSEWHEEL"

\* C33: a message primitive called with valid arguments delivers exactly one
\* message, its own, to the window it was given when the delivery succeeds;
\* with a handle that is not a window, or when the delivery fails, it
\* delivers nothing and raises.
C33_OneMessagePerPrimitive ==
    (req.op \in Primitives /\ ValidArguments)
    => IF req.hwnd \in Windows /\ req.env.fail_at # 1
       THEN /\ Len(sent) = 1
            /\ sent[1].hwnd = req.hwnd
            /\ sent[1].msg = PrimitiveMessage
            /\ result # "raised"
       ELSE sent = <<>> /\ result = "raised"

C33_Witness ==
    /\ req.op = "mouse_down_press"
    /\ req.button = "left"
    /\ req.hwnd = Destroyed
    /\ req.env.fail_at = 0
    /\ sent = <<>>
    /\ result = "raised"

\* C34: holding or precisely pressing a known button on a valid window, with
\* a duration that is not negative and both deliveries succeeding, delivers
\* one button-down and then one button-up at (x, y) and reports success,
\* whatever the window returns.
C34_ButtonDownThenUp ==
    (req.op \in {"mouse_press_and_hold", "press_mouse_precisely"}
       /\ req.button \in {"left", "right", "middle"}
       /\ req.duration >= 0 /\ req.env.fail_at = 0)
    => /\ sent = << [hwnd |-> req.hwnd, msg |-> ButtonDown[req.button][1],
                     wparam |-> ButtonDown[req.button][2],
                     lparam |-> req.y * 65536 + req.x],
                    [hwnd |-> req.hwnd, msg |-> ButtonUp[req.button][1],
                     wparam |-> ButtonUp[req.button][2],
                     lparam |-> req.y * 65536 + req.x] >>
       /\ Truthy(result)

\* C37: the WM_MOUSEWHEEL message of send_mouse_wheel carries the delta in
\* the high word of its wparam.
C37_WheelDeltaEncoded ==
    (req.op = "send_mouse_wheel" /\ req.hwnd \in Windows /\ req.env.fail_at # 1)
    => /\ Len(sent) = 1
       /\ sent[1].msg = "WM_MOUSEWHEEL"
       /\ sent[1].wparam \div 65536 = req.delta % 65536

\* The messages of one press of a key or of one cycle of a combination.
KeyCycle(hwnd, key) ==
    LET parts == split(key)
        mods == SubSeq(parts, 1, Len(parts) - 1)
        main == parts[Len(parts)]
        Msg(m, k, l) == [hwnd |-> hwnd, msg |-> m, wparam |-> get_virtual_key(k),
                         lparam |-> l]
    IN  [i \in 1 .. Len(mods) |-> Msg("WM_KEYDOWN", mods[i], 0)]
        \o << Msg("WM_KEYDOWN", main, 0), Msg("WM_KEYUP", main, 1) >>
        \o [i \in 1 .. Len(mods) |-> Msg("WM_KEYUP", mods[Len(mods) + 1 - i], 1)]

RECURSIVE Times(_, _)
Times(s, n) == IF n = 0 THEN <<>> ELSE s \o Times(s, n - 1)

\* C35: send_key with repeat = n >= 1 on a valid window, with a delay that
\* is not negative, a known key and no failing delivery, delivers n times the
\* messages of one press of the key, or of one cycle of the combination, and
\* returns True.
C35_KeyRepeated ==
    (req.op = "send_key" /\ req.key # "bogus" /\ req.delay >= 0
       /\ req.env.fail_at = 0)
    => /\ sent = Times(KeyCycle(req.hwnd, req.key), req.repeat)
       /\ result = "True"

\* The messages of the hotkeys and of the clicks of a whole list.
RECURSIVE AllHotkeys(_, _)
AllHotkeys(hwnd, keys) ==
    IF keys = <<>> THEN <<>>
    ELSE KeyCycle(hwnd, Head(keys)) \o AllHotkeys(hwnd, Tail(keys))

RECURSIVE AllClicks(_, _, _)
AllClicks(hwnd, positions, button) ==
    IF positions = <<>> THEN <<>>
    ELSE LET l == Head(positions)[2] * 65536 + Head(positions)[1]
         IN  << [hwnd |-> hwnd, msg |-> "WM_MOUSEMOVE", wparam |-> 0, lparam |-> l],
                [hwnd |-> hwnd, msg |-> ButtonDown[button][1],
                 wparam |-> ButtonDown[button][2], lparam |-> l],
                [hwnd |-> hwnd, msg |-> ButtonUp[button][1],
                 wparam |-> ButtonUp[button][2], lparam |-> l] >>
             \o AllClicks(hwnd, Tail(positions), button)

\* C36: a hotkey sequence and a click sequence whose deliveries all succeed
\* deliver the messages of every element of their list, in the order of the
\* list, whatever the delays argument is.
C36_EveryElementProcessed ==
    /\ (req.op = "send_hotkey_sequence" /\ req.env.fail_at = 0)
       => sent = AllHotkeys(req.hwnd, req.keys)
    /\ (req.op = "send_click_sequence" /\ req.button = "left" /\ req.env.fail_at = 0)
       => sent = AllClicks(req.hwnd, req.positions, req.button)

\* What the program holds about task b: its entry of the active table, the
\* status and the thread liveness of its runners, and its status key.
RunnersOf(b) == {r \in RunnerIds : runners[r].task_id = b}
TaskFacts(b) ==
    <<task_runners[b],
      {<<r, runners[r].status, IsAlive(r)>> : r \in RunnersOf(b)},
      gstatus[b]>>

\* The step is a step of a call for task a, or of the thread of a runner of a.
StepOf(a) ==
    \/ \E c \in Callers :
          /\ arg'[c] = a
          /\ <<pc[c], op[c], arg[c], ret[c], log[c]>>'
                # <<pc[c], op[c], arg[c], ret[c], log[c]>>
    \/ \E r \in RunnersOf(a) : runners'[r] # runners[r]

\* C38 (SpecPair): a step of start_task(a), of stop_task(a) or of the thread
\* of a's body leaves the table entry, the runners' status and liveness and
\* the status key of every other task b unchanged, and start_task(b) is
\* rejected as already running only when b's own entry holds a running
\* runner.
C38_TasksIndependent ==
    [][/\ \A a \in Tasks : \A b \in Tasks \ {a} :
             StepOf(a) => TaskFacts(b)' = TaskFacts(b)
       /\ \A c \in Callers :
             (pc[c] = "st_check" /\ pc'[c] = "idle" /\ log'[c] = "already_running")
             => /\ task_runners[arg[c]] # NoRunner
                /\ runners[task_runners[arg[c]]].status = RUNNING]_vars

C38_Witness ==
    /\ pc[MainThread] = "idle" /\ op[MainThread] = "start"
    /\ arg[MainThread] = 2 /\ ret[MainThread] = "true"
    /\ task_runners[1] # NoRunner
    /\ runners[task_runners[1]].status = RUNNING
    /\ IsAlive(task_runners[1])
    /\ task_runners[2] # NoRunner
    /\ runners[task_runners[2]].status = RUNNING
    /\ gstatus = <<RUNNING, RUNNING>>

\* The step is a call of set(key, value, notify).
SetCalled(key, value, notify) ==
    req' = [op |-> "set", key |-> key, value |-> value, notify |-> notify]
    /\ (data' # data \/ notified' # notified \/ req' # req \/ history' # history)

TimesCalled(cb) == Cardinality({i \in DOMAIN notified : notified[i][1] = cb})
ListenersOf(key) == {listeners[key][i] : i \in DOMAIN listeners[key]}

\* C39 as stated (SpecStore): set stores the value and, exactly when notify
\* is true and the value differs from the one get(key) returned before,
\* calls every callback registered for the key once, and no other callback.
\* Violated: a callback registered twice is called twice.
C39_EachListenerOnce ==
    [][\A key \in StoreKeys, value \in StoreValues, notify \in BOOLEAN :
          SetCalled(key, value, notify)
          => /\ data'[key] = value
             /\ \A cb \in Callbacks :
                   TimesCalled(cb)' =
                      IF notify /\ get(key) # value /\ cb \in ListenersOf(key)
                      THEN 1 ELSE 0]_vars

\* C39 amended (SpecStore): set stores the value and, exactly when notify is
\* true and the value differs from the one get(key) returned before, makes
\* one call (key, value, old value) per registration for the key, in the
\* order of registration, a raising callback included; otherwise it makes
\* no call.
C39_EachRegistrationOnce ==
    [][\A key \in StoreKeys, value \in StoreValues, notify \in BOOLEAN :
          SetCalled(key, value, notify)
          => /\ data'[key] = value
             /\ notified' =
                   IF notify /\ get(key) # value
                   THEN [i \in DOMAIN listeners[key] |->
                            <<listeners[key][i], key, value, get(key)>>]
                   ELSE <<>>]_vars

C39_Witness ==
    /\ req = [op |-> "set", key |-> "a", value |-> "x", notify |-> TRUE]
    /\ listeners["a"] = <<2, 1>>
    /\ notified = << <<2, "a", "x", "None">>, <<1, "a", "x", "None">> >>
    /\ data["a"] = "x"

====
